---------------------------- MODULE Spec2Model ----------------------------
(***************************************************************************)
(* The heuristic scoring-and-classification engine of the repository:      *)
(*   backend/src/ml/aligned_dimension_scorer.py      (aligned pipeline)    *)
(*   backend/src/ml/convert_conversation_to_metrics.py (conversion)        *)
(*                                                                         *)
(* Texts are ASCII strings.  A keyword or regular expression of the source *)
(* that holds a non-ASCII (CJK) character cannot occur in an ASCII text,   *)
(* so every table below lists the ASCII entries of the source's table, in  *)
(* the source's order of appearance.  Texts hold no line break, so the     *)
(* regular expression `.` matches every character of a text.               *)
(***************************************************************************)
EXTENDS Integers, Sequences, FiniteSets, TLC

VARIABLES
    prog,        \* which script runs: "aligned", "convert" or "classify"
    pc,          \* position inside the running script
    records,     \* aligned: the transcript records of the user, in file order
    user_msgs,   \* aligned: the result of get_user_messages
    scores,      \* the score vector (aligned: by score_user)
    agg,         \* classify_pattern's locals: p_avg, m_avg, e_avg, r_avg, total
    result,      \* pattern, confidence and total_score
    err,         \* the exception raised, "none" when none
    conversations, \* convert: conversation id -> its records, in file order
    all_metrics, \* convert: the metrics of the conversations analysed so far
    avg_metrics, \* convert: the rounded averages of the output row
    next_conv,   \* convert: the index of the next conversation to analyse
    outputs,     \* driver: the calls made so far, each with its argument and value
    features     \* ladders: the scorer and the feature values its ladder is given

vars == <<prog, pc, records, user_msgs, scores, agg, result, err,
          conversations, all_metrics, avg_metrics, next_conv, outputs, features>>

\* The feature variable of a program that runs no ladder on its own.
NoFeatures == [dim |-> "", args |-> <<>>]

-----------------------------------------------------------------------------
(* Python values *)

\* Python's None: an atom that is no text of the model.
None == "<None>"

\* A quotient a / b of two integers, kept exact.
Div(a, b) == [num |-> a, den |-> b]
FracGT(f, g) == f.num * g.den > g.num * f.den
FracGE(f, g) == f.num * g.den >= g.num * f.den
FracLT(f, g) == f.num * g.den < g.num * f.den
Whole(n) == Div(n, 1)

RECURSIVE SumSeq(_)
SumSeq(s) == IF s = <<>> THEN 0 ELSE Head(s) + SumSeq(Tail(s))

-----------------------------------------------------------------------------
(* Strings: str.lower, str.strip, `in`, re.search *)

Upper == <<"A", "B", "C", "D", "E", "F", "G", "H", "I", "J", "K", "L", "M",
           "N", "O", "P", "Q", "R", "S", "T", "U", "V", "W", "X", "Y", "Z">>
LowerOf == <<"a", "b", "c", "d", "e", "f", "g", "h", "i", "j", "k", "l", "m",
             "n", "o", "p", "q", "r", "s", "t", "u", "v", "w", "x", "y", "z">>

CharAt(s, i) == SubSeq(s, i, i)

LowerChar(c) ==
    IF \E k \in 1..26 : Upper[k] = c
    THEN LowerOf[CHOOSE k \in 1..26 : Upper[k] = c]
    ELSE c

\* str.lower(), the two halves of the string lowered apart
RECURSIVE Lower(_)
Lower(s) ==
    IF Len(s) = 0 THEN ""
    ELSE IF Len(s) = 1 THEN LowerChar(s)
    ELSE LET half == Len(s) \div 2
         IN  Lower(SubSeq(s, 1, half)) \o Lower(SubSeq(s, half + 1, Len(s)))

\* The characters str.strip() removes that an ASCII text without line breaks
\* can hold.
Whitespace == {" ", "\t"}

\* str.strip()
RECURSIVE Strip(_)
Strip(s) ==
    IF Len(s) = 0 THEN ""
    ELSE IF CharAt(s, 1) \in Whitespace THEN Strip(SubSeq(s, 2, Len(s)))
    ELSE IF CharAt(s, Len(s)) \in Whitespace THEN Strip(SubSeq(s, 1, Len(s) - 1))
    ELSE s

\* kw in m
Contains(kw, m) ==
    \E i \in 1..(Len(m) - Len(kw) + 1) : SubSeq(m, i, i + Len(kw) - 1) = kw

\* A regular expression is a set of alternatives (a|b); an alternative is a
\* sequence of segments joined by `.*`; a segment is a sequence of atoms: a
\* literal string, \d or \d+.
Lit(s) == [kind |-> "lit", s |-> s]
D == [kind |-> "digit", s |-> ""]
Dp == [kind |-> "digits", s |-> ""]

Digit(c) == c \in {"0", "1", "2", "3", "4", "5", "6", "7", "8", "9"}

\* The positions right after a match of atom a that starts at position i of m.
AtomEnds(a, m, i) ==
    CASE a.kind = "lit" ->
            IF i + Len(a.s) - 1 <= Len(m) /\ SubSeq(m, i, i + Len(a.s) - 1) = a.s
            THEN {i + Len(a.s)} ELSE {}
      [] a.kind = "digit" ->
            IF i <= Len(m) /\ Digit(CharAt(m, i)) THEN {i + 1} ELSE {}
      [] a.kind = "digits" ->
            {j \in (i + 1)..(Len(m) + 1) : \A k \in i..(j - 1) : Digit(CharAt(m, k))}

RECURSIVE SegEnds(_, _, _)
SegEnds(seg, m, starts) ==
    IF seg = <<>> THEN starts
    ELSE SegEnds(Tail(seg), m, UNION {AtomEnds(Head(seg), m, i) : i \in starts})

RECURSIVE AltMatches(_, _, _)
AltMatches(alt, m, starts) ==
    IF alt = <<>> THEN starts # {}
    ELSE LET ends == SegEnds(Head(alt), m, starts)
         IN  /\ ends # {}
             /\ AltMatches(Tail(alt), m,
                          {j \in 1..(Len(m) + 1) : \E e \in ends : e <= j})

\* re.search(p, m)
re_search(p, m) == \E alt \in p : AltMatches(alt, m, 1..(Len(m) + 1))

\* re.search(p, m, re.IGNORECASE); every pattern of the tables is lower case.
re_search_ignorecase(p, m) == re_search(p, Lower(m))

\* sum(1 for kw in keywords if kw.lower() in m.lower()) for one message m;
\* every keyword of the tables is lower case.
KeywordHits(keywords, m) ==
    LET lower == Lower(m)
    IN  Cardinality({kw \in keywords : Contains(kw, lower)})

\* sum(1 for p in patterns if re.search(p, m)) for one message m
PatternHits(patterns, m) ==
    Cardinality({p \in patterns : re_search(p, m)})

\* sum(1 for p in patterns if re.search(p, m, re.IGNORECASE)) for one message m
PatternHitsIgnoreCase(patterns, m) ==
    LET lower == Lower(m)
    IN  Cardinality({p \in patterns : re_search(p, lower)})

-----------------------------------------------------------------------------
(* The texts of the model *)

\* The texts a record of the model carries: empty, blank, one that hits no
\* table, four that between them hit every table of the twelve scorers, and
\* one that matches a role pattern and holds no boundary keyword.
Texts ==
  {
    "",
    "  ",
    "ok",
    "done as a goal, can you adjust the risk? I trust google",
    "You are a senior Python expert, only check the code quality",
    "Act as a translator",
    "Step 1) review 3/10 so far",
    "First I need a plan: the goal is 95% accuracy in <5 ms, then step 1 should be a test. What if it is wrong? I'll verify and double check with a search, are you sure? Alternatively try again this time, because you might not know the knowledge cutoff."
  }

-----------------------------------------------------------------------------
(* aligned_dimension_scorer.py: the keyword and pattern tables *)

\* score_p1_task_understanding, lines 65-68
understanding_keywords ==
  {
    "requirement", "need", "goal", "want to", "should", "constraint",
    "audience"
  }

\* score_p1_task_understanding, lines 73-76
\*   first.*then
\*   step \d
\*   1\).*2\)
detailed_patterns ==
  {
    {<<<<Lit("first")>>, <<Lit("then")>>>>},
    {<<<<Lit("step "), D>>>>},
    {<<<<Lit("1)")>>, <<Lit("2)")>>>>}
  }

\* score_p2_goal_setting, lines 101-104
goal_keywords ==
  {
    "goal", "want", "achieve", "need to", "should be"
  }

\* score_p2_goal_setting, lines 107-110
\*   \d+%
\*   \d+ words
\*   <\d+
\*   >\d+
\*   \d+ms
\*   accuracy
\*   deadline
measurable_patterns ==
  {
    {<<<<Dp, Lit("%")>>>>},
    {<<<<Dp, Lit(" words")>>>>},
    {<<<<Lit("<"), Dp>>>>},
    {<<<<Lit(">"), Dp>>>>},
    {<<<<Dp, Lit("ms")>>>>},
    {<<<<Lit("accuracy")>>>>},
    {<<<<Lit("deadline")>>>>}
  }

\* score_p3_strategy_planning, lines 137-140
plan_keywords ==
  {
    "plan", "step", "first", "then", "next", "finally", "strategy",
    "approach"
  }

\* score_p3_strategy_planning, lines 143-146
\*   step \d
\*   \d\)
\*   if.*then
step_patterns ==
  {
    {<<<<Lit("step "), D>>>>},
    {<<<<D, Lit(")")>>>>},
    {<<<<Lit("if")>>, <<Lit("then")>>>>}
  }

\* score_p3_strategy_planning, lines 149-152
\*   alternatively
\*   another way
alternative_patterns ==
  {
    {<<<<Lit("alternatively")>>>>},
    {<<<<Lit("another way")>>>>}
  }

\* score_p4_role_definition, lines 180-183
role_keywords ==
  {
    "you are", "act as", "pretend", "your role", "as a"
  }

\* score_p4_role_definition, lines 186-189
boundary_keywords ==
  {
    "you handle", "i will", "don't", "only", "your job", "my job"
  }

\* score_p4_role_definition, lines 192-195
\*   you are a.*expert
\*   act as a
role_patterns ==
  {
    {<<<<Lit("you are a")>>, <<Lit("expert")>>>>},
    {<<<<Lit("act as a")>>>>}
  }

\* score_m1_process_tracking, lines 223-226
progress_keywords ==
  {
    "progress", "done", "next", "currently", "stage", "continue"
  }

\* score_m1_process_tracking, lines 229-232
\*   \d+/\d+
\*   step \d
\*   review
\*   so far
tracking_patterns ==
  {
    {<<<<Dp, Lit("/"), Dp>>>>},
    {<<<<Lit("step "), D>>>>},
    {<<<<Lit("review")>>>>},
    {<<<<Lit("so far")>>>>}
  }

\* score_m2_quality_checking, lines 261-264
check_keywords ==
  {
    "wrong", "error", "mistake", "fix", "change", "check", "verify",
    "incorrect"
  }

\* score_m2_quality_checking, lines 267-270
\*   this is wrong
\*   should be
\*   please fix
quality_patterns ==
  {
    {<<<<Lit("this is wrong")>>>>},
    {<<<<Lit("should be")>>>>},
    {<<<<Lit("please fix")>>>>}
  }

\* score_m3_trust_calibration, lines 297-300
trust_keywords ==
  {
    "trust", "believe", "unsure", "doubt", "verify", "confirm", "reliable"
  }

\* score_m3_trust_calibration, lines 303-306
\*   i'll verify
\*   double check
trust_patterns ==
  {
    {<<<<Lit("i'll verify")>>>>},
    {<<<<Lit("double check")>>>>}
  }

\* score_m3_trust_calibration, lines 309-312
\*   are you sure
\*   is this correct
skeptic_patterns ==
  {
    {<<<<Lit("are you sure")>>>>},
    {<<<<Lit("is this correct")>>>>}
  }

\* score_e1_quality_evaluation, lines 342-345
eval_keywords ==
  {
    "good", "bad", "okay", "satisfied", "quality", "rate", "score"
  }

\* score_e1_quality_evaluation, lines 348-351
\*   because
\*   but.*could be better
\*   pros.*cons
reason_patterns ==
  {
    {<<<<Lit("because")>>>>},
    {<<<<Lit("but")>>, <<Lit("could be better")>>>>},
    {<<<<Lit("pros")>>, <<Lit("cons")>>>>}
  }

\* score_e1_quality_evaluation, lines 354-357
\*   \d+/\d+
\*   accuracy.*completeness
\*   in terms of
multi_patterns ==
  {
    {<<<<Dp, Lit("/"), Dp>>>>},
    {<<<<Lit("accuracy")>>, <<Lit("completeness")>>>>},
    {<<<<Lit("in terms of")>>>>}
  }

\* score_e2_risk_assessment, lines 385-388
risk_keywords ==
  {
    "risk", "problem", "danger", "consequence", "safe", "what if",
    "if wrong"
  }

\* score_e2_risk_assessment, lines 391-394
\*   if.*might
\*   could.*cause
\*   be careful
risk_patterns ==
  {
    {<<<<Lit("if")>>, <<Lit("might")>>>>},
    {<<<<Lit("could")>>, <<Lit("cause")>>>>},
    {<<<<Lit("be careful")>>>>}
  }

\* score_e3_capability_judgment, lines 421-424
cap_keywords ==
  {
    "can you", "you are good at", "limitation", "i'll do",
    "you might not know"
  }

\* score_e3_capability_judgment, lines 427-430
\*   beyond your
\*   knowledge cutoff
\*   this part.*myself
boundary_patterns ==
  {
    {<<<<Lit("beyond your")>>>>},
    {<<<<Lit("knowledge cutoff")>>>>},
    {<<<<Lit("this part")>>, <<Lit("myself")>>>>}
  }

\* score_r1_strategy_adjustment, lines 457-460
adj_keywords ==
  {
    "try again", "different", "adjust", "change", "another way"
  }

\* score_r1_strategy_adjustment, lines 463-466
\*   last time
\*   this time
\*   different approach
active_patterns ==
  {
    {<<<<Lit("last time")>>>>},
    {<<<<Lit("this time")>>>>},
    {<<<<Lit("different approach")>>>>}
  }

\* score_r2_tool_switching, lines 493-496
tool_keywords ==
  {
    "google", "bing", "search", "look up", "other tool", "test", "run",
    "verify externally"
  }

\* score_r2_tool_switching, lines 499-502
\*   claude|chatgpt|gpt|<CJK>
\*   i'll.*search
tool_patterns ==
  {
    {<<<<Lit("claude")>>>>, <<<<Lit("chatgpt")>>>>, <<<<Lit("gpt")>>>>},
    {<<<<Lit("i'll")>>, <<Lit("search")>>>>}
  }


-----------------------------------------------------------------------------
(* aligned_dimension_scorer.py: the twelve scorers *)

\* For each text of the model and each table, the number of entries of the
\* table that the text hits, as the scorer using the table counts them:
\* keywords by kw.lower() in m.lower(), patterns by re.search with the flags
\* the scorer passes.
MessageHits ==
    [m \in Texts |->
      [
        understanding_keywords |-> KeywordHits(understanding_keywords, m),
        detailed_patterns |-> PatternHitsIgnoreCase(detailed_patterns, m),
        goal_keywords |-> KeywordHits(goal_keywords, m),
        measurable_patterns |-> PatternHits(measurable_patterns, m),
        plan_keywords |-> KeywordHits(plan_keywords, m),
        step_patterns |-> PatternHits(step_patterns, m),
        alternative_patterns |-> PatternHitsIgnoreCase(alternative_patterns, m),
        role_keywords |-> KeywordHits(role_keywords, m),
        boundary_keywords |-> KeywordHits(boundary_keywords, m),
        role_patterns |-> PatternHitsIgnoreCase(role_patterns, m),
        progress_keywords |-> KeywordHits(progress_keywords, m),
        tracking_patterns |-> PatternHits(tracking_patterns, m),
        check_keywords |-> KeywordHits(check_keywords, m),
        quality_patterns |-> PatternHitsIgnoreCase(quality_patterns, m),
        trust_keywords |-> KeywordHits(trust_keywords, m),
        trust_patterns |-> PatternHitsIgnoreCase(trust_patterns, m),
        skeptic_patterns |-> PatternHitsIgnoreCase(skeptic_patterns, m),
        eval_keywords |-> KeywordHits(eval_keywords, m),
        reason_patterns |-> PatternHitsIgnoreCase(reason_patterns, m),
        multi_patterns |-> PatternHits(multi_patterns, m),
        risk_keywords |-> KeywordHits(risk_keywords, m),
        risk_patterns |-> PatternHitsIgnoreCase(risk_patterns, m),
        cap_keywords |-> KeywordHits(cap_keywords, m),
        boundary_patterns |-> PatternHitsIgnoreCase(boundary_patterns, m),
        adj_keywords |-> KeywordHits(adj_keywords, m),
        active_patterns |-> PatternHitsIgnoreCase(active_patterns, m),
        tool_keywords |-> KeywordHits(tool_keywords, m),
        tool_patterns |-> PatternHitsIgnoreCase(tool_patterns, m)
      ]]

\* sum(1 for m in user_msgs for x in table if <m hits x>)
Count(table, msgs) ==
    SumSeq([i \in 1..Len(msgs) |-> MessageHits[msgs[i]][table]])

\* sum(len(m) for m in user_msgs) / len(user_msgs), for a non-empty list
AvgLen(msgs) == Div(SumSeq([i \in 1..Len(msgs) |-> Len(msgs[i])]), Len(msgs))

p1_ladder(avg_len, keyword_count, detail_score) ==
    IF FracGT(avg_len, Whole(150)) /\ (keyword_count > 5 \/ detail_score > 2) THEN 3
    ELSE IF FracGT(avg_len, Whole(80)) /\ (keyword_count > 2 \/ detail_score > 0) THEN 2
    ELSE IF FracGT(avg_len, Whole(30)) THEN 1
    ELSE 0

score_p1_task_understanding(msgs) ==
    IF msgs = <<>> THEN 0
    ELSE p1_ladder(AvgLen(msgs),
                   Count("understanding_keywords", msgs),
                   Count("detailed_patterns", msgs))

\* p2_ladder with nested conditions: its middle rung also asks for a goal
\* keyword.
p2_ladder_nested(goal_mentions, measurable) ==
    IF measurable > 1 /\ goal_mentions > 2 THEN 3
    ELSE IF (measurable > 0 \/ goal_mentions > 3) /\ goal_mentions > 0 THEN 2
    ELSE IF goal_mentions > 0 THEN 1
    ELSE 0

p2_ladder(goal_mentions, measurable) ==
    IF measurable > 1 /\ goal_mentions > 2 THEN 3
    ELSE IF measurable > 0 \/ goal_mentions > 3 THEN 2
    ELSE IF goal_mentions > 0 THEN 1
    ELSE 0

score_p2_goal_setting(msgs) ==
    IF msgs = <<>> THEN 0
    ELSE p2_ladder(Count("goal_keywords", msgs),
                   Count("measurable_patterns", msgs))

p3_ladder(plan_mentions, step_score, alt_score) ==
    IF step_score > 2 /\ alt_score > 0 THEN 3
    ELSE IF step_score > 1 \/ plan_mentions > 3 THEN 2
    ELSE IF plan_mentions > 0 THEN 1
    ELSE 0

score_p3_strategy_planning(msgs) ==
    IF msgs = <<>> THEN 0
    ELSE p3_ladder(Count("plan_keywords", msgs),
                   Count("step_patterns", msgs),
                   Count("alternative_patterns", msgs))

\* p4_ladder with `> 1` for `> 0` on boundary_mentions in its top rung.
p4_ladder_two_boundaries(role_mentions, boundary_mentions, role_pattern_score) ==
    IF role_pattern_score > 0 /\ boundary_mentions > 1 THEN 3
    ELSE IF role_pattern_score > 0 \/ role_mentions > 2 THEN 2
    ELSE IF role_mentions > 0 \/ boundary_mentions > 0 THEN 1
    ELSE 0

p4_ladder(role_mentions, boundary_mentions, role_pattern_score) ==
    IF role_pattern_score > 0 /\ boundary_mentions > 0 THEN 3
    ELSE IF role_pattern_score > 0 \/ role_mentions > 2 THEN 2
    ELSE IF role_mentions > 0 \/ boundary_mentions > 0 THEN 1
    ELSE 0

score_p4_role_definition(msgs) ==
    IF msgs = <<>> THEN 0
    ELSE p4_ladder(Count("role_keywords", msgs),
                   Count("boundary_keywords", msgs),
                   Count("role_patterns", msgs))

\* m1_ladder with `>= 20` for `> 20` on msg_count in its top rung.
m1_ladder_from_twenty(msg_count, progress_mentions, tracking_score) ==
    IF tracking_score > 2 \/ (msg_count >= 20 /\ progress_mentions > 3) THEN 3
    ELSE IF msg_count > 10 /\ progress_mentions > 1 THEN 2
    ELSE IF msg_count > 3 THEN 1
    ELSE 0

m1_ladder(msg_count, progress_mentions, tracking_score) ==
    IF tracking_score > 2 \/ (msg_count > 20 /\ progress_mentions > 3) THEN 3
    ELSE IF msg_count > 10 /\ progress_mentions > 1 THEN 2
    ELSE IF msg_count > 3 THEN 1
    ELSE 0

score_m1_process_tracking(msgs) ==
    IF msgs = <<>> THEN 0
    ELSE m1_ladder(Len(msgs),
                   Count("progress_keywords", msgs),
                   Count("tracking_patterns", msgs))

m2_ladder(check_mentions, quality_score) ==
    IF quality_score > 2 \/ check_mentions > 5 THEN 3
    ELSE IF quality_score > 0 \/ check_mentions > 2 THEN 2
    ELSE IF check_mentions > 0 THEN 1
    ELSE 0

score_m2_quality_checking(msgs) ==
    IF msgs = <<>> THEN 0
    ELSE m2_ladder(Count("check_keywords", msgs),
                   Count("quality_patterns", msgs))

\* m3_ladder returning the behaviour count itself, not its rung.
m3_ladder_uncapped(trust_mentions, trust_score, skeptic_score) ==
    trust_mentions + trust_score + skeptic_score

m3_ladder(trust_mentions, trust_score, skeptic_score) ==
    LET total_trust_behavior == trust_mentions + trust_score + skeptic_score
    IN  IF trust_score > 1 /\ skeptic_score > 0 THEN 3
        ELSE IF total_trust_behavior > 3 THEN 2
        ELSE IF total_trust_behavior > 0 THEN 1
        ELSE 0

score_m3_trust_calibration(msgs) ==
    IF msgs = <<>> THEN 0
    ELSE m3_ladder(Count("trust_keywords", msgs),
                   Count("trust_patterns", msgs),
                   Count("skeptic_patterns", msgs))

\* e1_ladder whose top rung asks the multi-dimensional match to come with a
\* reasoned evaluation.
e1_ladder_reasoned_multi(eval_mentions, reason_score, multi_score) ==
    IF (multi_score > 0 /\ reason_score > 0)
       \/ (reason_score > 1 /\ eval_mentions > 2) THEN 3
    ELSE IF reason_score > 0 THEN 2
    ELSE IF eval_mentions > 0 THEN 1
    ELSE 0

e1_ladder(eval_mentions, reason_score, multi_score) ==
    IF multi_score > 0 \/ (reason_score > 1 /\ eval_mentions > 2) THEN 3
    ELSE IF reason_score > 0 THEN 2
    ELSE IF eval_mentions > 0 THEN 1
    ELSE 0

score_e1_quality_evaluation(msgs) ==
    IF msgs = <<>> THEN 0
    ELSE e1_ladder(Count("eval_keywords", msgs),
                   Count("reason_patterns", msgs),
                   Count("multi_patterns", msgs))

e2_ladder(risk_mentions, risk_score) ==
    IF risk_score > 2 \/ (risk_mentions > 3 /\ risk_score > 0) THEN 3
    ELSE IF risk_score > 0 \/ risk_mentions > 1 THEN 2
    ELSE IF risk_mentions > 0 THEN 1
    ELSE 0

score_e2_risk_assessment(msgs) ==
    IF msgs = <<>> THEN 0
    ELSE e2_ladder(Count("risk_keywords", msgs),
                   Count("risk_patterns", msgs))

e3_ladder(cap_mentions, boundary_score) ==
    IF boundary_score > 1 \/ (cap_mentions > 2 /\ boundary_score > 0) THEN 3
    ELSE IF boundary_score > 0 \/ cap_mentions > 1 THEN 2
    ELSE IF cap_mentions > 0 THEN 1
    ELSE 0

score_e3_capability_judgment(msgs) ==
    IF msgs = <<>> THEN 0
    ELSE e3_ladder(Count("cap_keywords", msgs),
                   Count("boundary_patterns", msgs))

\* r1_ladder with `== 2` for `> 1` in its middle rung.
r1_ladder_exactly_two(adj_mentions, active_score) ==
    IF active_score > 1 \/ (adj_mentions > 2 /\ active_score > 0) THEN 3
    ELSE IF active_score > 0 \/ adj_mentions = 2 THEN 2
    ELSE IF adj_mentions > 0 THEN 1
    ELSE 0

r1_ladder(adj_mentions, active_score) ==
    IF active_score > 1 \/ (adj_mentions > 2 /\ active_score > 0) THEN 3
    ELSE IF active_score > 0 \/ adj_mentions > 1 THEN 2
    ELSE IF adj_mentions > 0 THEN 1
    ELSE 0

score_r1_strategy_adjustment(msgs) ==
    IF msgs = <<>> THEN 0
    ELSE r1_ladder(Count("adj_keywords", msgs),
                   Count("active_patterns", msgs))

\* r2_ladder with `== 2` for `> 1` in its middle rung.
r2_ladder_exactly_two(tool_mentions, tool_score) ==
    IF tool_score > 2 \/ (tool_mentions > 3 /\ tool_score > 0) THEN 3
    ELSE IF tool_score > 0 \/ tool_mentions = 2 THEN 2
    ELSE IF tool_mentions > 0 THEN 1
    ELSE 0

r2_ladder(tool_mentions, tool_score) ==
    IF tool_score > 2 \/ (tool_mentions > 3 /\ tool_score > 0) THEN 3
    ELSE IF tool_score > 0 \/ tool_mentions > 1 THEN 2
    ELSE IF tool_mentions > 0 THEN 1
    ELSE 0

score_r2_tool_switching(msgs) ==
    IF msgs = <<>> THEN 0
    ELSE r2_ladder(Count("tool_keywords", msgs),
                   Count("tool_patterns", msgs))

-----------------------------------------------------------------------------
(* aligned_dimension_scorer.py: extraction, classification, score_user *)

\* The exception the list comprehension of get_user_messages raises on record
\* m, "none" when it raises none: m['sender'] needs the key, and when the
\* sender is 'user', m['text'] needs the key and .strip() a string.
RecordError(m) ==
    IF "sender" \notin DOMAIN m THEN "KeyError"
    ELSE IF m.sender # "user" THEN "none"
    ELSE IF "text" \notin DOMAIN m THEN "KeyError"
    ELSE IF m.text = None THEN "AttributeError"
    ELSE "none"

\* The exception get_user_messages raises on the list: that of the first
\* record that raises one.
RECURSIVE get_user_messages_error(_)
get_user_messages_error(messages) ==
    IF messages = <<>> THEN "none"
    ELSE IF RecordError(Head(messages)) # "none" THEN RecordError(Head(messages))
    ELSE get_user_messages_error(Tail(messages))

\* get_user_messages without the test of the stripped text.
RECURSIVE get_user_messages_unstripped(_)
get_user_messages_unstripped(messages) ==
    IF messages = <<>> THEN <<>>
    ELSE LET m == Head(messages)
         IN  IF m.sender = "user"
             THEN <<m.text>> \o get_user_messages_unstripped(Tail(messages))
             ELSE get_user_messages_unstripped(Tail(messages))

\* get_user_messages putting each kept text before the ones kept so far.
RECURSIVE get_user_messages_reversed(_)
get_user_messages_reversed(messages) ==
    IF messages = <<>> THEN <<>>
    ELSE LET m == Head(messages)
         IN  IF m.sender = "user" /\ Strip(m.text) # ""
             THEN get_user_messages_reversed(Tail(messages)) \o <<m.text>>
             ELSE get_user_messages_reversed(Tail(messages))

\* [m['text'] for m in messages if m['sender'] == 'user' and m['text'].strip()]
RECURSIVE get_user_messages(_)
get_user_messages(messages) ==
    IF messages = <<>> THEN <<>>
    ELSE LET m == Head(messages)
         IN  IF m.sender = "user" /\ Strip(m.text) # ""
             THEN <<m.text>> \o get_user_messages(Tail(messages))
             ELSE get_user_messages(Tail(messages))

\* The keys of the scores dict, in the order score_user writes them.
Dims == <<"P1", "P2", "P3", "P4", "M1", "M2", "M3", "E1", "E2", "E3", "R1", "R2">>
DimSet == {Dims[i] : i \in 1..Len(Dims)}

\* sum(scores.values())
RECURSIVE SumValues(_, _)
SumValues(d, keys) ==
    IF keys = {} THEN 0
    ELSE LET k == CHOOSE x \in keys : TRUE
         IN  d[k] + SumValues(d, keys \ {k})

\* classify_locals with m_avg over the size of the P group.
classify_locals_m_avg_over_4(s) ==
    [p_avg |-> Div(s["P1"] + s["P2"] + s["P3"] + s["P4"], 4),
     m_avg |-> Div(s["M1"] + s["M2"] + s["M3"], 4),
     e_avg |-> Div(s["E1"] + s["E2"] + s["E3"], 3),
     r_avg |-> Div(s["R1"] + s["R2"], 2),
     total |-> SumValues(s, DOMAIN s)]

\* The locals of classify_pattern.
classify_locals(s) ==
    [p_avg |-> Div(s["P1"] + s["P2"] + s["P3"] + s["P4"], 4),
     m_avg |-> Div(s["M1"] + s["M2"] + s["M3"], 3),
     e_avg |-> Div(s["E1"] + s["E2"] + s["E3"], 3),
     r_avg |-> Div(s["R1"] + s["R2"], 2),
     total |-> SumValues(s, DOMAIN s)]

\* classify_pattern with the F rule on e_avg <= 1 in place of E1 <= 1.
classify_pattern_f_by_e_avg(s) ==
    LET l == classify_locals(s)
    IN  IF l.total <= 15 /\ FracGE(Whole(1), l.e_avg)
            THEN [pattern |-> "F", confidence |-> 90]
        ELSE IF FracGE(l.p_avg, Div(5, 2)) /\ FracGE(l.e_avg, Whole(2))
            THEN [pattern |-> "A", confidence |-> 85]
        ELSE IF FracGE(l.e_avg, Div(5, 2))
            THEN [pattern |-> "D", confidence |-> 85]
        ELSE IF FracGE(l.r_avg, Div(5, 2)) /\ FracGE(l.p_avg, Whole(2))
                /\ FracGE(l.e_avg, Whole(2))
            THEN [pattern |-> "E", confidence |-> 80]
        ELSE IF FracGE(l.m_avg, Whole(2))
            THEN [pattern |-> "B", confidence |-> 80]
        ELSE [pattern |-> "C", confidence |-> 70]

\* classify_pattern with the F rule checked after rule B.
classify_pattern_f_after_b(s) ==
    LET l == classify_locals(s)
    IN  IF FracGE(l.p_avg, Div(5, 2)) /\ FracGE(l.e_avg, Whole(2))
            THEN [pattern |-> "A", confidence |-> 85]
        ELSE IF FracGE(l.e_avg, Div(5, 2))
            THEN [pattern |-> "D", confidence |-> 85]
        ELSE IF FracGE(l.r_avg, Div(5, 2)) /\ FracGE(l.p_avg, Whole(2))
                /\ FracGE(l.e_avg, Whole(2))
            THEN [pattern |-> "E", confidence |-> 80]
        ELSE IF FracGE(l.m_avg, Whole(2))
            THEN [pattern |-> "B", confidence |-> 80]
        ELSE IF l.total <= 15 /\ s["E1"] <= 1
            THEN [pattern |-> "F", confidence |-> 90]
        ELSE [pattern |-> "C", confidence |-> 70]

\* classify_pattern with rule B checked before rule E.
classify_pattern_b_before_e(s) ==
    LET l == classify_locals(s)
    IN  IF l.total <= 15 /\ s["E1"] <= 1
            THEN [pattern |-> "F", confidence |-> 90]
        ELSE IF FracGE(l.p_avg, Div(5, 2)) /\ FracGE(l.e_avg, Whole(2))
            THEN [pattern |-> "A", confidence |-> 85]
        ELSE IF FracGE(l.e_avg, Div(5, 2))
            THEN [pattern |-> "D", confidence |-> 85]
        ELSE IF FracGE(l.m_avg, Whole(2))
            THEN [pattern |-> "B", confidence |-> 80]
        ELSE IF FracGE(l.r_avg, Div(5, 2)) /\ FracGE(l.p_avg, Whole(2))
                /\ FracGE(l.e_avg, Whole(2))
            THEN [pattern |-> "E", confidence |-> 80]
        ELSE [pattern |-> "C", confidence |-> 70]

\* classify_pattern with rule D checked before rule A.
classify_pattern_d_before_a(s) ==
    LET l == classify_locals(s)
    IN  IF l.total <= 15 /\ s["E1"] <= 1
            THEN [pattern |-> "F", confidence |-> 90]
        ELSE IF FracGE(l.e_avg, Div(5, 2))
            THEN [pattern |-> "D", confidence |-> 85]
        ELSE IF FracGE(l.p_avg, Div(5, 2)) /\ FracGE(l.e_avg, Whole(2))
            THEN [pattern |-> "A", confidence |-> 85]
        ELSE IF FracGE(l.r_avg, Div(5, 2)) /\ FracGE(l.p_avg, Whole(2))
                /\ FracGE(l.e_avg, Whole(2))
            THEN [pattern |-> "E", confidence |-> 80]
        ELSE IF FracGE(l.m_avg, Whole(2))
            THEN [pattern |-> "B", confidence |-> 80]
        ELSE [pattern |-> "C", confidence |-> 70]

\* classify_pattern with the graded confidence of the default that
\* convert_conversation_to_metrics.py gives it: 0.7 from a total of 18, else 0.5.
classify_pattern_graded_c(s) ==
    LET l == classify_locals(s)
    IN  IF l.total <= 15 /\ s["E1"] <= 1
            THEN [pattern |-> "F", confidence |-> 90]
        ELSE IF FracGE(l.p_avg, Div(5, 2)) /\ FracGE(l.e_avg, Whole(2))
            THEN [pattern |-> "A", confidence |-> 85]
        ELSE IF FracGE(l.e_avg, Div(5, 2))
            THEN [pattern |-> "D", confidence |-> 85]
        ELSE IF FracGE(l.r_avg, Div(5, 2)) /\ FracGE(l.p_avg, Whole(2))
                /\ FracGE(l.e_avg, Whole(2))
            THEN [pattern |-> "E", confidence |-> 80]
        ELSE IF FracGE(l.m_avg, Whole(2))
            THEN [pattern |-> "B", confidence |-> 80]
        ELSE IF l.total >= 18
            THEN [pattern |-> "C", confidence |-> 70]
        ELSE [pattern |-> "C", confidence |-> 50]

\* classify_pattern keeping state between calls: a confidence that drops by
\* 0.01 with every call made before.
classify_pattern_call_counting(s) ==
    LET l == classify_locals(s)
        used == Len(outputs)
    IN  IF l.total <= 15 /\ s["E1"] <= 1
            THEN [pattern |-> "F", confidence |-> 90 - used]
        ELSE IF FracGE(l.p_avg, Div(5, 2)) /\ FracGE(l.e_avg, Whole(2))
            THEN [pattern |-> "A", confidence |-> 85 - used]
        ELSE IF FracGE(l.e_avg, Div(5, 2))
            THEN [pattern |-> "D", confidence |-> 85 - used]
        ELSE IF FracGE(l.r_avg, Div(5, 2)) /\ FracGE(l.p_avg, Whole(2))
                /\ FracGE(l.e_avg, Whole(2))
            THEN [pattern |-> "E", confidence |-> 80 - used]
        ELSE IF FracGE(l.m_avg, Whole(2))
            THEN [pattern |-> "B", confidence |-> 80 - used]
        ELSE [pattern |-> "C", confidence |-> 70 - used]

\* classify_pattern whose rule A asks p_avg >= 2 only.
classify_pattern_a_from_two(s) ==
    LET l == classify_locals(s)
    IN  IF l.total <= 15 /\ s["E1"] <= 1
            THEN [pattern |-> "F", confidence |-> 90]
        ELSE IF FracGE(l.p_avg, Whole(2)) /\ FracGE(l.e_avg, Whole(2))
            THEN [pattern |-> "A", confidence |-> 85]
        ELSE IF FracGE(l.e_avg, Div(5, 2))
            THEN [pattern |-> "D", confidence |-> 85]
        ELSE IF FracGE(l.r_avg, Div(5, 2)) /\ FracGE(l.p_avg, Whole(2))
                /\ FracGE(l.e_avg, Whole(2))
            THEN [pattern |-> "E", confidence |-> 80]
        ELSE IF FracGE(l.m_avg, Whole(2))
            THEN [pattern |-> "B", confidence |-> 80]
        ELSE [pattern |-> "C", confidence |-> 70]

\* The pattern and the confidence, the confidence in hundredths (0.9 is 90).
classify_pattern(s) ==
    LET l == classify_locals(s)
    IN  IF l.total <= 15 /\ s["E1"] <= 1
            THEN [pattern |-> "F", confidence |-> 90]
        ELSE IF FracGE(l.p_avg, Div(5, 2)) /\ FracGE(l.e_avg, Whole(2))
            THEN [pattern |-> "A", confidence |-> 85]
        ELSE IF FracGE(l.e_avg, Div(5, 2))
            THEN [pattern |-> "D", confidence |-> 85]
        ELSE IF FracGE(l.r_avg, Div(5, 2)) /\ FracGE(l.p_avg, Whole(2))
                /\ FracGE(l.e_avg, Whole(2))
            THEN [pattern |-> "E", confidence |-> 80]
        ELSE IF FracGE(l.m_avg, Whole(2))
            THEN [pattern |-> "B", confidence |-> 80]
        ELSE [pattern |-> "C", confidence |-> 70]

\* The scores dict score_user builds.
user_scores(msgs) ==
    [d \in DimSet |->
        CASE d = "P1" -> score_p1_task_understanding(msgs)
          [] d = "P2" -> score_p2_goal_setting(msgs)
          [] d = "P3" -> score_p3_strategy_planning(msgs)
          [] d = "P4" -> score_p4_role_definition(msgs)
          [] d = "M1" -> score_m1_process_tracking(msgs)
          [] d = "M2" -> score_m2_quality_checking(msgs)
          [] d = "M3" -> score_m3_trust_calibration(msgs)
          [] d = "E1" -> score_e1_quality_evaluation(msgs)
          [] d = "E2" -> score_e2_risk_assessment(msgs)
          [] d = "E3" -> score_e3_capability_judgment(msgs)
          [] d = "R1" -> score_r1_strategy_adjustment(msgs)
          [] d = "R2" -> score_r2_tool_switching(msgs)]

\* What score_user returns beside the scores, once the scores dict is built.
score_user_result(s) ==
    LET c == classify_pattern(s)
    IN  [pattern |-> c.pattern,
         confidence |-> c.confidence,
         total_score |-> SumValues(s, DOMAIN s)]

-----------------------------------------------------------------------------
(* convert_conversation_to_metrics.py: the keyword lists and the patterns *)

\* convert_conversation_to_metrics.py, lines 30-33
VERIFICATION_KEYWORDS ==
  {
    "is this correct", "can you check", "verify", "are you sure",
    "double check", "confirm", "is that right", "make sure"
  }

\* convert_conversation_to_metrics.py, lines 35-38
QUESTION_KEYWORDS ==
  {
    "why", "how", "what if", "explain", "can you clarify",
    "i don't understand", "could you elaborate", "what does"
  }

\* convert_conversation_to_metrics.py, lines 40-43
MODIFICATION_KEYWORDS ==
  {
    "change", "modify", "adjust", "update", "revise", "instead",
    "alternatively", "try again", "different", "another way"
  }

\* convert_conversation_to_metrics.py, lines 45-48
REFLECTION_KEYWORDS ==
  {
    "i think", "i understand", "so basically", "in other words",
    "let me try", "i see", "that makes sense", "i realized"
  }

\* convert_conversation_to_metrics.py, lines 50-53
CRITICAL_KEYWORDS ==
  {
    "but", "however", "actually", "wait", "hold on", "not quite",
    "i disagree", "that's not", "incorrect"
  }

\* analyze_conversation, line 94: \d+|example|specific|for instance
has_specifics_pattern ==
    {<<<<Dp>>>>, <<<<Lit("example")>>>>, <<<<Lit("specific")>>>>, <<<<Lit("for instance")>>>>}

\* analyze_conversation, line 98: first|then|also|and also|additionally|1\.|2\.
multi_part_pattern ==
    {<<<<Lit("first")>>>>, <<<<Lit("then")>>>>, <<<<Lit("also")>>>>, <<<<Lit("and also")>>>>, <<<<Lit("additionally")>>>>, <<<<Lit("1.")>>>>, <<<<Lit("2.")>>>>}

\* analyze_conversation, line 117: can you|could you|please|make it|show me
customization_pattern ==
    {<<<<Lit("can you")>>>>, <<<<Lit("could you")>>>>, <<<<Lit("please")>>>>, <<<<Lit("make it")>>>>, <<<<Lit("show me")>>>>}

\* analyze_conversation, line 118: step by step|detail|more|less|simpler|easier
specificity_pattern ==
    {<<<<Lit("step by step")>>>>, <<<<Lit("detail")>>>>, <<<<Lit("more")>>>>, <<<<Lit("less")>>>>, <<<<Lit("simpler")>>>>, <<<<Lit("easier")>>>>}

\* analyze_conversation, line 122: combine|together|overall|summary|connection
integration_pattern ==
    {<<<<Lit("combine")>>>>, <<<<Lit("together")>>>>, <<<<Lit("overall")>>>>, <<<<Lit("summary")>>>>, <<<<Lit("connection")>>>>}

\* analyze_conversation, line 123: compare|difference|similar|versus|vs
comparison_pattern ==
    {<<<<Lit("compare")>>>>, <<<<Lit("difference")>>>>, <<<<Lit("similar")>>>>, <<<<Lit("versus")>>>>, <<<<Lit("vs")>>>>}

\* analyze_conversation, line 148: book|lecture|professor|class|notes|textbook|source
external_pattern ==
    {<<<<Lit("book")>>>>, <<<<Lit("lecture")>>>>, <<<<Lit("professor")>>>>, <<<<Lit("class")>>>>, <<<<Lit("notes")>>>>, <<<<Lit("textbook")>>>>, <<<<Lit("source")>>>>}

\* analyze_conversation, line 161: thank|got it|understand now|learned|helpful|makes sense
learning_pattern ==
    {<<<<Lit("thank")>>>>, <<<<Lit("got it")>>>>, <<<<Lit("understand now")>>>>, <<<<Lit("learned")>>>>, <<<<Lit("helpful")>>>>, <<<<Lit("makes sense")>>>>}

\* analyze_conversation, line 162: let me try|i\'ll|practice|attempt
practice_pattern ==
    {<<<<Lit("let me try")>>>>, <<<<Lit("i'll")>>>>, <<<<Lit("practice")>>>>, <<<<Lit("attempt")>>>>}

-----------------------------------------------------------------------------
(* convert_conversation_to_metrics.py: analyze_conversation, classify_pattern *)

\* ' '.join(parts)
RECURSIVE Join(_, _)
Join(sep, parts) ==
    IF parts = <<>> THEN ""
    ELSE IF Len(parts) = 1 THEN parts[1]
    ELSE parts[1] \o sep \o Join(sep, Tail(parts))

\* sum(1 for kw in keywords if kw in text)
CountIn(keywords, text) == Cardinality({kw \in keywords : Contains(kw, text)})

\* int(b) of a bool
Bool(b) == IF b THEN 1 ELSE 0

Min(a, b) == IF a < b THEN a ELSE b
Max(a, b) == IF a > b THEN a ELSE b

\* The keys of a metrics dict.
MetricKeys == {"p1", "p2", "p3", "p4", "m1", "m2", "m3", "e1", "e2", "e3",
               "r1", "r2"}

\* The metrics of a row not yet written.
NoMetrics == [key \in MetricKeys |-> 0]

\* What analyze_conversation returns when there is no user message: Python's
\* None, kept apart from every metrics dict.
ReturnsNone == [returned |-> "None"]

\* metrics['e2'] as the E2 block leaves it: the third branch writes the key
\* 'e3', so metrics.get('e2', 1) finds no 'e2' and yields 1.
e2_block(critical_count) ==
    LET metrics == IF critical_count = 0 THEN [e2 |-> 1]
                   ELSE IF critical_count <= 2 THEN [e2 |-> 2]
                   ELSE [e3 |-> 3]
    IN  Min(IF "e2" \in DOMAIN metrics THEN metrics.e2 ELSE 1, 3)

analyze_conversation(messages) ==
    LET user_messages == SelectSeq(messages, LAMBDA m : m.sender = "user")
        n == Len(user_messages)
        all_user_text ==
            Join(" ", [i \in 1..n |-> Lower(user_messages[i].text)])
        avg_len == Div(SumSeq([i \in 1..n |-> Len(user_messages[i].text)]), n)
        question_count == CountIn(QUESTION_KEYWORDS, all_user_text)
        has_context == \E i \in 1..n : Len(user_messages[i].text) > 100
        has_specifics == re_search(has_specifics_pattern, all_user_text)
        multi_part == re_search(multi_part_pattern, all_user_text)
        follow_up_count == n - 1
        modification_count == CountIn(MODIFICATION_KEYWORDS, all_user_text)
        customization == re_search(customization_pattern, all_user_text)
        specificity == re_search(specificity_pattern, all_user_text)
        integration == re_search(integration_pattern, all_user_text)
        comparison == re_search(comparison_pattern, all_user_text)
        verification_count == CountIn(VERIFICATION_KEYWORDS, all_user_text)
        critical_count == CountIn(CRITICAL_KEYWORDS, all_user_text)
        external == re_search(external_pattern, all_user_text)
        reflection_count == CountIn(REFLECTION_KEYWORDS, all_user_text)
        learning == re_search(learning_pattern, all_user_text)
        practice == re_search(practice_pattern, all_user_text)
        metrics ==
            [p1 |-> IF FracLT(avg_len, Whole(30)) THEN 1
                    ELSE IF FracLT(avg_len, Whole(80)) THEN 2 ELSE 3,
             p2 |-> IF question_count = 0 THEN 1
                    ELSE IF question_count <= 2 THEN 2 ELSE 3,
             p3 |-> 1 + Bool(has_context) + Bool(has_specifics),
             p4 |-> IF multi_part /\ follow_up_count > 2 THEN 3
                    ELSE IF multi_part \/ follow_up_count > 1 THEN 2 ELSE 1,
             m1 |-> IF modification_count = 0
                        THEN (IF n <= 1 THEN 0 ELSE 1)
                    ELSE IF modification_count <= 2 THEN 2 ELSE 3,
             m2 |-> 1 + Bool(customization) + Bool(specificity),
             m3 |-> 1 + Bool(integration) + Bool(comparison),
             e1 |-> IF verification_count = 0 THEN 0
                    ELSE IF verification_count = 1 THEN 1
                    ELSE IF verification_count <= 3 THEN 2 ELSE 3,
             e2 |-> e2_block(critical_count),
             e3 |-> IF external THEN 2 ELSE 1,
             r1 |-> IF reflection_count = 0 THEN 1
                    ELSE IF reflection_count <= 2 THEN 2 ELSE 3,
             r2 |-> 1 + Bool(learning) + Bool(practice)]
    IN  IF user_messages = <<>> THEN ReturnsNone
        ELSE [key \in MetricKeys |-> Max(0, Min(3, metrics[key]))]

\* The locals of classify_pattern of convert_conversation_to_metrics.py.
convert_classify_locals(metrics) ==
    [p_avg |-> Div(metrics["p1"] + metrics["p2"] + metrics["p3"]
                   + metrics["p4"], 4),
     m_avg |-> Div(metrics["m1"] + metrics["m2"] + metrics["m3"], 3),
     e_avg |-> Div(metrics["e1"] + metrics["e2"] + metrics["e3"], 3),
     r_avg |-> Div(metrics["r1"] + metrics["r2"], 2),
     total |-> SumValues(metrics, DOMAIN metrics)]

\* classify_pattern of convert_conversation_to_metrics.py with the rules and
\* the confidences of aligned_dimension_scorer.classify_pattern.
convert_classify_pattern_aligned_rules(metrics) ==
    LET l == convert_classify_locals(metrics)
    IN  IF l.total <= 15 /\ metrics["e1"] <= 1
            THEN [pattern |-> "F", confidence |-> 90]
        ELSE IF FracGE(l.p_avg, Div(5, 2)) /\ FracGE(l.e_avg, Whole(2))
            THEN [pattern |-> "A", confidence |-> 85]
        ELSE IF FracGE(l.e_avg, Div(5, 2))
            THEN [pattern |-> "D", confidence |-> 85]
        ELSE IF FracGE(l.r_avg, Div(5, 2)) /\ FracGE(l.p_avg, Whole(2))
                /\ FracGE(l.e_avg, Whole(2))
            THEN [pattern |-> "E", confidence |-> 80]
        ELSE IF FracGE(l.m_avg, Whole(2))
            THEN [pattern |-> "B", confidence |-> 80]
        ELSE [pattern |-> "C", confidence |-> 70]

\* classify_pattern of convert_conversation_to_metrics.py; the confidence in
\* hundredths.
convert_classify_pattern(metrics) ==
    LET l == convert_classify_locals(metrics)
        total_score == l.total
    IN  IF total_score <= 15 /\ FracLT(l.e_avg, Div(3, 2))
           /\ FracLT(l.p_avg, Whole(2))
            THEN [pattern |-> "F", confidence |-> 85]
        ELSE IF total_score >= 28 /\ FracGE(l.e_avg, Div(5, 2))
                /\ FracGE(l.p_avg, Div(5, 2))
            THEN [pattern |-> "A", confidence |-> 85]
        ELSE IF FracGE(l.p_avg, Div(5, 2)) /\ FracGE(l.m_avg, Whole(2))
                /\ FracLT(l.r_avg, Whole(2))
            THEN [pattern |-> "B", confidence |-> 75]
        ELSE IF FracGE(l.m_avg, Div(5, 2)) /\ total_score >= 22
            THEN [pattern |-> "D", confidence |-> 80]
        ELSE IF FracGE(l.r_avg, Div(5, 2)) /\ FracGE(l.p_avg, Whole(2))
            THEN [pattern |-> "E", confidence |-> 75]
        ELSE IF total_score >= 18
            THEN [pattern |-> "C", confidence |-> 70]
        ELSE [pattern |-> "C", confidence |-> 50]

\* Python's round() of a non-negative fraction: to the nearest integer, a tie
\* to the even one.
Round(f) ==
    LET q == f.num \div f.den
        r == f.num % f.den
    IN  IF 2 * r < f.den THEN q
        ELSE IF 2 * r > f.den THEN q + 1
        ELSE IF q % 2 = 0 THEN q ELSE q + 1

\* avg_metrics[key] = round(sum(m[key] for m in all_metrics) / len(all_metrics))
average_metrics(metrics_list) ==
    [key \in MetricKeys |->
        Round(Div(SumSeq([i \in 1..Len(metrics_list) |-> metrics_list[i][key]]),
                  Len(metrics_list)))]

-----------------------------------------------------------------------------
(* The state machine *)

\* The first MaxVaried records of a transcript vary freely; every later one
\* repeats the record before it (a user sending the same message again), up
\* to MaxRecords records.
MaxVaried == 2
MaxRecords == 21

\* The records a transcript of the model holds: a user record for each text,
\* an assistant record, a record whose sender is None (a short CSV row read by
\* load_conversations), and the malformed records: no sender key, no text key,
\* a text that is None.
Records ==
    {[sender |-> "user", text |-> t] : t \in Texts}
    \cup {[sender |-> "assistant", text |-> "ok"],
          [sender |-> None, text |-> "ok"],
          [text |-> "ok"],
          [sender |-> "user"],
          [sender |-> "user", text |-> None]}

NoScores == [d \in DimSet |-> 0]
NoLocals == [p_avg |-> Div(0, 4), m_avg |-> Div(0, 3), e_avg |-> Div(0, 3),
             r_avg |-> Div(0, 2), total |-> 0]
NoResult == [pattern |-> "", confidence |-> 0, total_score |-> 0]

AlignedInit ==
    /\ prog = "aligned"
    /\ pc = "load"
    /\ records = <<>>
    /\ user_msgs = <<>>
    /\ scores = NoScores
    /\ agg = NoLocals
    /\ result = NoResult
    /\ err = "none"
    /\ conversations = <<>>
    /\ all_metrics = <<>>
    /\ avg_metrics = NoMetrics
    /\ next_conv = 1
    /\ outputs = <<>>
    /\ features = NoFeatures

\* One more record of the user reaches the list main hands to
\* get_user_messages.
AddRecord(r) ==
    /\ prog = "aligned"
    /\ pc = "load"
    /\ Len(records) < MaxRecords
    /\ IF Len(records) < MaxVaried THEN TRUE ELSE r = records[Len(records)]
    /\ records' = Append(records, r)
    /\ UNCHANGED <<prog, pc, user_msgs, scores, agg, result, err,
                   conversations, all_metrics, avg_metrics, next_conv>>
    /\ UNCHANGED <<outputs, features>>

\* main: user_msgs = get_user_messages(messages)
GetUserMessages ==
    /\ prog = "aligned"
    /\ pc = "load"
    /\ LET e == get_user_messages_error(records)
       IN  IF e # "none"
           THEN /\ err' = e
                /\ pc' = "raised"
                /\ UNCHANGED user_msgs
           ELSE /\ user_msgs' = get_user_messages(records)
                /\ pc' = "extracted"
                /\ UNCHANGED err
    /\ UNCHANGED <<prog, records, scores, agg, result, conversations,
                   all_metrics, avg_metrics, next_conv>>
    /\ UNCHANGED <<outputs, features>>

\* main: result = score_user(user_msgs)
ScoreUser ==
    /\ prog = "aligned"
    /\ pc = "extracted"
    /\ LET s == user_scores(user_msgs)
       IN  /\ scores' = s
           /\ agg' = classify_locals(s)
           /\ result' = score_user_result(s)
    /\ pc' = "scored"
    /\ UNCHANGED <<prog, records, user_msgs, err, conversations,
                   all_metrics, avg_metrics, next_conv>>
    /\ UNCHANGED <<outputs, features>>

-----------------------------------------------------------------------------
(* The state machine of convert_csv_to_metrics, for the rows of one user *)

\* A conversation of the model holds up to MaxConvRows kept rows.
MaxConvRows == 2

ConvIds == {"c1", "c2"}

ConvTexts ==
    {"",
     "First, why and how does example 1 work? Explain, then change and adjust it instead: compare the overall detail",
     "I think I see, so basically it makes sense. But let me try to make sure, thanks",
     "Wait, actually are you sure? Can you check and verify, then confirm with my notes",
     "I think I see why example 1 works, so basically it makes sense, thanks. Let me try"}

\* The rows csv.DictReader yields: user rows of each text, a user row whose
\* text cell is missing (None), an assistant row, and the rows the filter
\* drops (another sender, no conversation id, no user id).
Rows ==
    {[hash_id |-> "u1", conversation_id |-> c, sender |-> "user", text |-> t] :
        c \in ConvIds, t \in ConvTexts \cup {None}}
    \cup {[hash_id |-> "u1", conversation_id |-> c, sender |-> "assistant",
           text |-> "ok"] : c \in ConvIds}
    \cup {[hash_id |-> "u1", conversation_id |-> "c1", sender |-> "system",
           text |-> "ok"],
          [hash_id |-> "u1", conversation_id |-> "", sender |-> "user",
           text |-> "ok"],
          [hash_id |-> "", conversation_id |-> "c1", sender |-> "user",
           text |-> "ok"]}

\* The message dicts convert_csv_to_metrics stores.
ConvRecords ==
    {[sender |-> "user", text |-> t] : t \in ConvTexts}
    \cup {[sender |-> "assistant", text |-> "ok"]}

\* The message lists a conversation of the model can hold.
MessageLists ==
    {messages : messages \in UNION {[1..n -> ConvRecords] : n \in 1..MaxConvRows}}

\* analyze_conversation on every message list of the model.
Analysis == [messages \in MessageLists |-> analyze_conversation(messages)]

ConvertInit ==
    /\ prog = "convert"
    /\ pc = "read"
    /\ records = <<>>
    /\ user_msgs = <<>>
    /\ scores = NoScores
    /\ agg = NoLocals
    /\ result = NoResult
    /\ err = "none"
    /\ conversations = <<>>
    /\ all_metrics = <<>>
    /\ avg_metrics = NoMetrics
    /\ next_conv = 1
    /\ outputs = <<>>
    /\ features = NoFeatures

\* The index of conversation conv_id in the insertion-ordered dict, 0 when
\* the dict has no such key.
IndexOf(conv_id) ==
    IF \E i \in 1..Len(conversations) : conversations[i].conv_id = conv_id
    THEN CHOOSE i \in 1..Len(conversations) :
            conversations[i].conv_id = conv_id
    ELSE 0

\* One pass of the reader loop: the row is filtered, its text defaulted, and
\* the message appended to its conversation.
ReadRow(row) ==
    /\ prog = "convert"
    /\ pc = "read"
    /\ LET text == IF row.text = None \/ row.text = "" THEN "" ELSE row.text
           message == [sender |-> row.sender, text |-> text]
           i == IndexOf(row.conversation_id)
       IN  IF row.hash_id # "" /\ row.conversation_id # ""
              /\ row.sender \in {"user", "assistant"}
           THEN IF i = 0
                THEN conversations' =
                        Append(conversations,
                               [conv_id |-> row.conversation_id,
                                messages |-> <<message>>])
                ELSE /\ Len(conversations[i].messages) < MaxConvRows
                     /\ conversations' =
                            [conversations EXCEPT
                                ![i].messages = Append(@, message)]
           ELSE UNCHANGED conversations
    /\ UNCHANGED <<prog, pc, records, user_msgs, scores, agg, result, err,
                   all_metrics, avg_metrics, next_conv>>
    /\ UNCHANGED <<outputs, features>>

\* One pass of the loop over the user's conversations:
\* metrics = analyze_conversation(messages); if metrics: append.
AnalyzeConversation ==
    /\ prog = "convert"
    /\ pc \in {"read", "analyze"}
    /\ next_conv <= Len(conversations)
    /\ LET metrics == Analysis[conversations[next_conv].messages]
       IN  all_metrics' = IF metrics = ReturnsNone THEN all_metrics
                          ELSE Append(all_metrics, metrics)
    /\ next_conv' = next_conv + 1
    /\ pc' = "analyze"
    /\ UNCHANGED <<prog, records, user_msgs, scores, agg, result, err,
                   conversations, avg_metrics>>
    /\ UNCHANGED <<outputs, features>>

\* The rest of the user's pass: skipped when no conversation gave metrics,
\* else the rounded averages, the pattern and the total of the output row.
EmitUser ==
    /\ prog = "convert"
    /\ pc = "analyze"
    /\ next_conv > Len(conversations)
    /\ IF all_metrics = <<>>
       THEN /\ pc' = "skipped"
            /\ UNCHANGED <<avg_metrics, agg, result>>
       ELSE LET avg == average_metrics(all_metrics)
                c == convert_classify_pattern(avg)
            IN  /\ avg_metrics' = avg
                /\ agg' = convert_classify_locals(avg)
                /\ result' = [pattern |-> c.pattern,
                              confidence |-> c.confidence,
                              total_score |-> SumValues(avg, DOMAIN avg)]
                /\ pc' = "emitted"
    /\ UNCHANGED <<prog, records, user_msgs, scores, err, conversations,
                   all_metrics, next_conv>>
    /\ UNCHANGED <<outputs, features>>

-----------------------------------------------------------------------------
(* Both programs *)

Init == AlignedInit \/ ConvertInit

Next ==
    \/ \E r \in Records : AddRecord(r)
    \/ GetUserMessages
    \/ ScoreUser
    \/ \E row \in Rows : ReadRow(row)
    \/ AnalyzeConversation
    \/ EmitUser

Spec == Init /\ [][Next]_vars

-----------------------------------------------------------------------------
(* The classifier on every score vector *)

MaxScore == 3

\* The values of a group of n slots, up to a reordering of the slots.
Sorted(n) ==
    {w \in [1..n -> 0..MaxScore] : \A i \in 1..(n - 1) : w[i] <= w[i + 1]}

\* The scores dict with the given values of the P, M, E and R slots.
Vector(p, m, e, r) ==
    [d \in DimSet |->
        CASE d = "P1" -> p[1] [] d = "P2" -> p[2] [] d = "P3" -> p[3]
          [] d = "P4" -> p[4] [] d = "M1" -> m[1] [] d = "M2" -> m[2]
          [] d = "M3" -> m[3] [] d = "E1" -> e[1] [] d = "E2" -> e[2]
          [] d = "E3" -> e[3] [] d = "R1" -> r[1] [] d = "R2" -> r[2]]

\* The classifier is given every score vector of {0..MaxScore}^12 up to a
\* reordering of the slots classify_pattern only adds up (P1..P4, M1..M3, E2
\* and E3, R1 and R2); E1, which it also reads alone, is free.
ClassifyInit ==
    /\ prog = "classify"
    /\ pc = "classify"
    /\ records = <<>>
    /\ user_msgs = <<>>
    /\ \E p \in Sorted(4), m \in Sorted(3), r \in Sorted(2) :
       \E e \in {w \in [1..3 -> 0..MaxScore] : w[2] <= w[3]} :
          scores = Vector(p, m, e, r)
    /\ agg = NoLocals
    /\ result = NoResult
    /\ err = "none"
    /\ conversations = <<>>
    /\ all_metrics = <<>>
    /\ avg_metrics = NoMetrics
    /\ next_conv = 1
    /\ outputs = <<>>
    /\ features = NoFeatures

\* score_user from the call of classify_pattern on, on the given scores.
ClassifyPattern ==
    /\ prog = "classify"
    /\ pc = "classify"
    /\ agg' = classify_locals(scores)
    /\ result' = score_user_result(scores)
    /\ pc' = "classified"
    /\ UNCHANGED <<prog, records, user_msgs, scores, err, conversations,
                   all_metrics, avg_metrics, next_conv>>
    /\ UNCHANGED <<outputs, features>>

ClassifyNext == ClassifyPattern

ClassifySpec == ClassifyInit /\ [][ClassifyNext]_vars

-----------------------------------------------------------------------------
(* A driver that calls the core functions again and again *)

\* The number of times the driver goes through its calls.
MaxPasses == 2

\* The key of a metrics dict for each key of a scores dict.
LowerKey ==
    [d \in DimSet |->
        CASE d = "P1" -> "p1" [] d = "P2" -> "p2" [] d = "P3" -> "p3"
          [] d = "P4" -> "p4" [] d = "M1" -> "m1" [] d = "M2" -> "m2"
          [] d = "M3" -> "m3" [] d = "E1" -> "e1" [] d = "E2" -> "e2"
          [] d = "E3" -> "e3" [] d = "R1" -> "r1" [] d = "R2" -> "r2"]

\* The metrics dict holding the values of the scores dict s.
AsMetrics(s) ==
    [key \in MetricKeys |-> s[CHOOSE d \in DimSet : LowerKey[d] = key]]

\* The well-formed records of a transcript.
WellFormedRecords ==
    {[sender |-> "user", text |-> t] : t \in Texts}
    \cup {[sender |-> "assistant", text |-> "ok"],
          [sender |-> None, text |-> "ok"]}

\* The transcripts the driver is started on.
DriverTranscripts ==
    UNION {[1..n -> WellFormedRecords] : n \in 0..MaxVaried}

\* The score vectors the driver is started on: one value for the P slots,
\* one for the M slots, one for E2 and E3, one for the R slots, and E1 free.
DriverVectors ==
    {Vector([i \in 1..4 |-> p], [i \in 1..3 |-> m], <<e1, e, e>>,
            [i \in 1..2 |-> r]) :
        p \in 0..MaxScore, m \in 0..MaxScore, e1 \in 0..MaxScore,
        e \in 0..MaxScore, r \in 0..MaxScore}

\* The second input of each kind, on which the driver calls the functions
\* between two calls on its first input.
OtherTranscript == <<[sender |-> "user", text |-> "ok"]>>
OtherVector == NoScores
OtherConversation ==
    <<[sender |-> "user",
       text |-> "I think I see, so basically it makes sense. But let me try to make sure, thanks"]>>

\* score_user(user_msgs), the whole dict it returns.
score_user(msgs) ==
    LET s == user_scores(msgs)
        r == score_user_result(s)
    IN  [scores |-> s, pattern |-> r.pattern, confidence |-> r.confidence,
         total_score |-> r.total_score]

\* The calls of one pass of the driver, in order.
Script ==
    CASE prog = "rerun_aligned" ->
            <<[fn |-> "get_user_messages", arg |-> records],
              [fn |-> "score_user", arg |-> user_msgs],
              [fn |-> "get_user_messages", arg |-> OtherTranscript],
              [fn |-> "score_user", arg |-> get_user_messages(OtherTranscript)]>>
      [] prog = "rerun_classify" ->
            <<[fn |-> "classify_pattern", arg |-> scores],
              [fn |-> "convert.classify_pattern", arg |-> avg_metrics],
              [fn |-> "classify_pattern", arg |-> OtherVector],
              [fn |-> "convert.classify_pattern", arg |-> AsMetrics(OtherVector)]>>
      [] prog = "rerun_analyze" ->
            <<[fn |-> "analyze_conversation", arg |-> records],
              [fn |-> "analyze_conversation", arg |-> OtherConversation]>>

\* The value the function returns on the argument.
Apply(fn, arg) ==
    CASE fn = "get_user_messages" -> get_user_messages(arg)
      [] fn = "score_user" -> score_user(arg)
      [] fn = "classify_pattern" -> classify_pattern(arg)
      [] fn = "convert.classify_pattern" -> convert_classify_pattern(arg)
      [] fn = "analyze_conversation" -> Analysis[arg]

RerunInit ==
    /\ pc = "calls"
    /\ \/ /\ prog = "rerun_aligned"
          /\ records \in DriverTranscripts
          /\ user_msgs = get_user_messages(records)
          /\ scores = NoScores
          /\ avg_metrics = NoMetrics
       \/ /\ prog = "rerun_classify"
          /\ records = <<>>
          /\ user_msgs = <<>>
          /\ scores \in DriverVectors
          /\ avg_metrics = AsMetrics(scores)
       \/ /\ prog = "rerun_analyze"
          /\ records \in MessageLists
          /\ user_msgs = <<>>
          /\ scores = NoScores
          /\ avg_metrics = NoMetrics
    /\ agg = NoLocals
    /\ result = NoResult
    /\ err = "none"
    /\ conversations = <<>>
    /\ all_metrics = <<>>
    /\ next_conv = 1
    /\ outputs = <<>>
    /\ features = NoFeatures

\* The next call of the driver, with a classify_pattern that stores its
\* total in the dict it is given (scores['total'] = total).
Call_storing_total ==
    /\ prog \in {"rerun_aligned", "rerun_classify", "rerun_analyze"}
    /\ pc = "calls"
    /\ Len(outputs) < MaxPasses * Len(Script)
    /\ LET call == Script[(Len(outputs) % Len(Script)) + 1]
       IN  /\ outputs' = Append(outputs,
                                [fn |-> call.fn, arg |-> call.arg,
                                 value |-> Apply(call.fn, call.arg)])
           /\ scores' = IF call.fn = "classify_pattern"
                        THEN [k \in DOMAIN scores \cup {"total"} |->
                                IF k = "total" THEN classify_locals(call.arg).total
                                ELSE scores[k]]
                        ELSE scores
    /\ UNCHANGED <<prog, pc, records, user_msgs, agg, result, err,
                   conversations, all_metrics, avg_metrics, next_conv,
                   features>>

\* The next call of the driver: the function is given its argument and the
\* value it returns is recorded; no function assigns to its argument.
Call ==
    /\ prog \in {"rerun_aligned", "rerun_classify", "rerun_analyze"}
    /\ pc = "calls"
    /\ Len(outputs) < MaxPasses * Len(Script)
    /\ LET call == Script[(Len(outputs) % Len(Script)) + 1]
       IN  outputs' = Append(outputs,
                             [fn |-> call.fn, arg |-> call.arg,
                              value |-> Apply(call.fn, call.arg)])
    /\ UNCHANGED <<prog, pc, records, user_msgs, scores, agg, result, err,
                   conversations, all_metrics, avg_metrics, next_conv,
                   features>>

RerunNext == Call

RerunSpec == RerunInit /\ [][RerunNext]_vars

-----------------------------------------------------------------------------
(* The producers of training records from annotations *)

\* d.get(key, default)
Get(d, key, default) == IF key \in DOMAIN d THEN d[key] ELSE default

\* The scores dict whose values are listed in the order of Dims.
FromList(values) ==
    [d \in DimSet |-> values[CHOOSE i \in 1..Len(Dims) : Dims[i] = d]]

PATTERN_SCORE_TEMPLATES ==
    [A |-> FromList(<<3, 3, 3, 3, 2, 3, 2, 2, 2, 2, 3, 3>>),
     B |-> FromList(<<2, 2, 2, 2, 2, 2, 2, 2, 1, 1, 2, 2>>),
     C |-> FromList(<<1, 2, 1, 2, 2, 1, 1, 1, 1, 0, 1, 1>>),
     D |-> FromList(<<2, 3, 2, 2, 3, 3, 2, 3, 3, 2, 2, 2>>),
     E |-> FromList(<<2, 2, 2, 2, 2, 2, 3, 2, 2, 3, 2, 2>>),
     F |-> FromList(<<0, 1, 0, 1, 0, 0, 0, 0, 0, 0, 0, 1>>)]

\* One turn of `for dim in dims`, for the dim the shuffled list gives next:
\* st holds the template, diff, and the dims not yet visited.
\* adjust that adds and takes one point at a time.
adjust_by_one(st, dim) ==
    LET template == st.template
        diff == st.diff
    IN  IF diff > 0 /\ template[dim] < 3
        THEN [template |-> [template EXCEPT ![dim] = @ + 1],
              diff |-> diff - 1, dims |-> st.dims \ {dim}]
        ELSE IF diff < 0 /\ template[dim] > 0
        THEN [template |-> [template EXCEPT ![dim] = @ - 1],
              diff |-> diff + 1, dims |-> st.dims \ {dim}]
        ELSE [st EXCEPT !.dims = @ \ {dim}]

adjust(st, dim) ==
    LET template == st.template
        diff == st.diff
    IN  IF diff > 0 /\ template[dim] < 3
        THEN LET add == Min(diff, 3 - template[dim])
             IN  [template |-> [template EXCEPT ![dim] = @ + add],
                  diff |-> diff - add, dims |-> st.dims \ {dim}]
        ELSE IF diff < 0 /\ template[dim] > 0
        THEN LET sub == Min(-diff, template[dim])
             IN  [template |-> [template EXCEPT ![dim] = @ - sub],
                  diff |-> diff + sub, dims |-> st.dims \ {dim}]
        ELSE [st EXCEPT !.dims = @ \ {dim}]

\* The loop over random.shuffle(dims): every order of the dims is possible,
\* so the loop is followed along all of them at once; it ends on diff == 0 or
\* at the end of the list.
RECURSIVE shuffled_loop(_)
shuffled_loop(running) ==
    LET over == {st \in running : st.diff = 0 \/ st.dims = {}}
    IN  IF over = running THEN {st.template : st \in running}
        ELSE shuffled_loop(
                over \cup UNION {{adjust(st, dim) : dim \in st.dims} :
                                 st \in running \ over})

\* The dicts estimate_scores_from_pattern_and_total can return.
estimate_scores_from_pattern_and_total(pattern, total) ==
    LET template == Get(PATTERN_SCORE_TEMPLATES, pattern,
                        PATTERN_SCORE_TEMPLATES["C"])
        template_total == SumValues(template, DimSet)
    IN  shuffled_loop({[template |-> template, diff |-> total - template_total,
                        dims |-> DimSet]})

\* {k.lower(): v for k, v in d.items()}, for a dict that holds no two keys
\* equal up to case.
lower_keys(d) ==
    [key \in {Lower(k) : k \in DOMAIN d} |->
        d[CHOOSE k \in DOMAIN d : Lower(k) = key]]

\* The scores dict load_batch_file reads its twelve fields from.
batch_scores(ann) ==
    LET pattern == Get(ann, "pattern", "C")
        total == Get(ann, "total", 10)
    IN  IF "scores" \in DOMAIN ann
        THEN {lower_keys(ann.scores)}
        ELSE {lower_keys(s) :
                s \in estimate_scores_from_pattern_and_total(pattern, total)}

\* The record load_batch_file appends for annotation ann, given the lowered
\* scores dict.
batch_record(ann, s) ==
    [user_id |-> Get(ann, "user_id", ""),
     pattern |-> Get(ann, "pattern", "C"),
     confidence |-> Get(ann, "confidence", 80),
     p1 |-> Get(s, "p1", 1), p2 |-> Get(s, "p2", 1), p3 |-> Get(s, "p3", 1),
     p4 |-> Get(s, "p4", 1), m1 |-> Get(s, "m1", 1), m2 |-> Get(s, "m2", 1),
     m3 |-> Get(s, "m3", 1), e1 |-> Get(s, "e1", 1), e2 |-> Get(s, "e2", 1),
     e3 |-> Get(s, "e3", 1), r1 |-> Get(s, "r1", 1), r2 |-> Get(s, "r2", 1),
     total_score |-> Get(ann, "total", 10),
     is_mixed_pattern |-> "false"]

\* The row llm_annotator_aligned.main writes for annotation ann of user_id.
annotator_row(user_id, ann) ==
    LET s == Get(ann, "scores", <<>>)
    IN  [user_id |-> user_id,
         pattern |-> Get(ann, "pattern", "F"),
         confidence |-> Get(ann, "confidence", 50),
         p1 |-> Get(s, "P1", 0), p2 |-> Get(s, "P2", 0), p3 |-> Get(s, "P3", 0),
         p4 |-> Get(s, "P4", 0), m1 |-> Get(s, "M1", 0), m2 |-> Get(s, "M2", 0),
         m3 |-> Get(s, "M3", 0), e1 |-> Get(s, "E1", 0), e2 |-> Get(s, "E2", 0),
         e3 |-> Get(s, "E3", 0), r1 |-> Get(s, "R1", 0), r2 |-> Get(s, "R2", 0),
         total_score |-> SumValues(s, DOMAIN s),
         is_mixed_pattern |-> "false"]

\* The annotation main stores for a conversation too short to analyze and for
\* a failed call of the LLM.
fallback_annotation(reasoning) ==
    [scores |-> NoScores, pattern |-> "F", confidence |-> 50,
     reasoning |-> reasoning]

\* The number of annotations of a batch file, and of users main annotates.
MaxAnnotations == 1

UserIds == <<"u1", "u2", "u3">>

\* The scores dicts of the annotations: the twelve upper-case keys with
\* scores of the scale, with a score above the scale, one key only, and
\* lower-case keys.
ScoreDicts ==
    {[d \in DimSet |-> 3],
     [d \in DimSet |-> IF d = "P1" THEN 4 ELSE 3],
     [d \in {"P1"} |-> 3],
     [key \in MetricKeys |-> 2]}

\* The annotations of a batch file: with neither pattern nor total, with
\* pattern and total only, and with a scores dict.
BatchAnnotations ==
    {[user_id |-> "u1"]}
    \cup {[user_id |-> "u1", pattern |-> p, total |-> t] :
            p \in {"F", "X"}, t \in {2, 37}}
    \cup {[user_id |-> "u1", pattern |-> "A", total |-> t, scores |-> s] :
            t \in {2, 36}, s \in ScoreDicts}
    \cup {[user_id |-> "u1", scores |-> s] : s \in ScoreDicts}

\* The dicts json.loads gives main from the reply of the LLM.
LLMResults ==
    {[pattern |-> "A", confidence |-> 90, scores |-> s] : s \in ScoreDicts}
    \cup {[pattern |-> "A", confidence |-> 90]}

BatchInit ==
    /\ \/ /\ prog = "load_batch"
          /\ pc = "load"
          /\ records \in UNION {[1..n -> BatchAnnotations] :
                                n \in 0..MaxAnnotations}
       \/ /\ prog = "annotate"
          /\ pc = "annotate"
          /\ records = <<>>
    /\ user_msgs = <<>>
    /\ scores = NoScores
    /\ agg = NoLocals
    /\ result = NoResult
    /\ err = "none"
    /\ conversations = <<>>
    /\ all_metrics = <<>>
    /\ avg_metrics = NoMetrics
    /\ next_conv = 1
    /\ outputs = <<>>
    /\ features = NoFeatures

\* load_batch_file, one turn of `for ann in annotations`.
LoadAnnotation ==
    /\ prog = "load_batch"
    /\ pc = "load"
    /\ next_conv <= Len(records)
    /\ \E s \in batch_scores(records[next_conv]) :
          all_metrics' = Append(all_metrics, batch_record(records[next_conv], s))
    /\ next_conv' = next_conv + 1
    /\ UNCHANGED <<prog, pc, records, user_msgs, scores, agg, result, err,
                   conversations, avg_metrics, outputs, features>>

\* load_batch_file returns its results at the end of the list.
ReturnResults ==
    /\ prog = "load_batch"
    /\ pc = "load"
    /\ next_conv > Len(records)
    /\ pc' = "done"
    /\ UNCHANGED <<prog, records, user_msgs, scores, agg, result, err,
                   conversations, all_metrics, avg_metrics, next_conv,
                   outputs, features>>

\* llm_annotator_aligned.main, one turn of `for i, user_id in
\* enumerate(users_to_annotate)`: the conversation is too short, the LLM
\* gives no result, or it gives a dict.
AnnotateUser ==
    /\ prog = "annotate"
    /\ pc = "annotate"
    /\ Len(records) < MaxAnnotations
    /\ \E ann \in LLMResults
                  \cup {fallback_annotation("Conversation too short to analyze"),
                        fallback_annotation("Annotation failed")} :
          records' = Append(records,
                            [user_id |-> UserIds[Len(records) + 1], ann |-> ann])
    /\ UNCHANGED <<prog, pc, user_msgs, scores, agg, result, err,
                   conversations, all_metrics, avg_metrics, next_conv,
                   outputs, features>>

\* llm_annotator_aligned.main, after the loop: one row of the CSV for each
\* annotation.
WriteRows ==
    /\ prog = "annotate"
    /\ pc = "annotate"
    /\ all_metrics' = [i \in 1..Len(records) |->
                          annotator_row(records[i].user_id, records[i].ann)]
    /\ pc' = "done"
    /\ UNCHANGED <<prog, records, user_msgs, scores, agg, result, err,
                   conversations, avg_metrics, next_conv, outputs, features>>

BatchNext ==
    \/ LoadAnnotation
    \/ ReturnResults
    \/ AnnotateUser
    \/ WriteRows

BatchSpec == BatchInit /\ [][BatchNext]_vars

-----------------------------------------------------------------------------
(* estimate_scores_from_pattern_and_total on every pattern and total *)

\* The patterns the estimator is called with: the six of the templates and
\* one that is none of them.
EstimatePatterns == {"A", "B", "C", "D", "E", "F", "X"}

\* The totals the estimator is called with: those twelve scores of 0..MaxScore
\* can add up to, and one on each side of them.
EstimateTotals == (0 - 1)..(Len(Dims) * MaxScore + 1)

EstimateInit ==
    /\ prog = "estimate"
    /\ pc = "call"
    /\ \E pattern \in EstimatePatterns : \E total \in EstimateTotals :
          records = <<[pattern |-> pattern, total |-> total]>>
    /\ user_msgs = <<>>
    /\ scores = NoScores
    /\ agg = NoLocals
    /\ result = NoResult
    /\ err = "none"
    /\ conversations = <<>>
    /\ all_metrics = <<>>
    /\ avg_metrics = NoMetrics
    /\ next_conv = 1
    /\ outputs = <<>>
    /\ features = NoFeatures

\* A call of estimate_scores_from_pattern_and_total: random.shuffle picks the
\* order, the function returns the adjusted template.
Estimate ==
    /\ prog = "estimate"
    /\ pc = "call"
    /\ \E s \in estimate_scores_from_pattern_and_total(records[1].pattern,
                                                       records[1].total) :
          scores' = s
    /\ pc' = "returned"
    /\ UNCHANGED <<prog, records, user_msgs, agg, result, err, conversations,
                   all_metrics, avg_metrics, next_conv, outputs, features>>

EstimateNext == Estimate

EstimateSpec == EstimateInit /\ [][EstimateNext]_vars

-----------------------------------------------------------------------------
(* The annotators: one conversation sent to the LLM *)

MAX_RETRIES == 3

\* What the try block of an attempt ends with when it raises.
Raised == [raised |-> "Exception"]

\* The content of a reply: no JSON, the JSON null, a JSON object without
\* 'scores', or a JSON object with 'scores' and 'pattern'.
Bodies == {"no json", "null", "object", "annotation"}

\* What one call of the API gives: an exception, or a reply with its content
\* inside a ``` fence or bare.
Replies ==
    {[error |-> TRUE, fenced |-> FALSE, body |-> "no json"]}
    \cup {[error |-> FALSE, fenced |-> f, body |-> b] :
            f \in BOOLEAN, b \in Bodies}

\* json.loads of a content
json_loads(body) ==
    CASE body = "null" -> ReturnsNone
      [] body = "object" -> [reasoning |-> "unclear"]
      [] body = "annotation" ->
            [scores |-> NoScores, pattern |-> "F", confidence |-> 50]
      [] OTHER -> Raised

\* The try block of annotate_with_llm on a reply: the fence is taken off, the
\* content parsed, the result returned as it is.
try_annotate_with_llm(reply) ==
    IF reply.error THEN Raised ELSE json_loads(reply.body)

\* The try block of annotate_user on a reply: the content is parsed, fence
\* included, the result must hold 'scores' and 'pattern', and the metadata
\* are added.
try_annotate_user(reply, user_id, user_messages) ==
    IF reply.error \/ reply.fenced THEN Raised
    ELSE LET r == json_loads(reply.body)
         IN  IF r = Raised \/ r = ReturnsNone THEN Raised
             ELSE IF "scores" \notin DOMAIN r \/ "pattern" \notin DOMAIN r
             THEN Raised
             ELSE [scores |-> r.scores, pattern |-> r.pattern,
                   confidence |-> r.confidence, user_id |-> user_id,
                   user_message_count |-> Len(user_messages)]

RetryInit ==
    /\ \/ /\ prog = "annotate_with_llm"
          /\ pc = "attempt"
          /\ user_msgs = <<>>
       \/ /\ prog = "annotate_user"
          /\ pc = "called"
          /\ user_msgs \in {<<>>, <<"hi">>, <<"hi", "why">>}
    /\ records = <<>>
    /\ scores = NoScores
    /\ agg = NoLocals
    /\ result = NoResult
    /\ err = "none"
    /\ conversations = <<>>
    /\ all_metrics = <<>>
    /\ avg_metrics = NoMetrics
    /\ next_conv = 1
    /\ outputs = <<>>
    /\ features = NoFeatures

\* annotate_user before its loop: fewer than two user messages, return None.
CountUserMessages ==
    /\ prog = "annotate_user"
    /\ pc = "called"
    /\ IF Len(user_msgs) < 2
       THEN /\ pc' = "returned"
            /\ outputs' = <<[fn |-> prog, arg |-> user_msgs,
                             value |-> ReturnsNone]>>
       ELSE /\ pc' = "attempt"
            /\ UNCHANGED outputs
    /\ UNCHANGED <<prog, records, user_msgs, scores, agg, result, err,
                   conversations, all_metrics, avg_metrics, next_conv,
                   features>>

\* One turn of `for attempt in range(MAX_RETRIES + 1)`.
Attempt_one_more ==
    /\ prog \in {"annotate_with_llm", "annotate_user"}
    /\ pc = "attempt"
    /\ \E reply \in Replies :
          LET r == IF prog = "annotate_with_llm"
                   THEN try_annotate_with_llm(reply)
                   ELSE try_annotate_user(reply, "u1", user_msgs)
          IN  /\ records' = Append(records, reply)
              /\ IF r # Raised
                 THEN /\ pc' = "returned"
                      /\ outputs' = <<[fn |-> prog, arg |-> user_msgs,
                                       value |-> r]>>
                      /\ UNCHANGED next_conv
                 ELSE IF next_conv = MAX_RETRIES + 1
                 THEN /\ pc' = "returned"
                      /\ outputs' = <<[fn |-> prog, arg |-> user_msgs,
                                       value |-> ReturnsNone]>>
                      /\ UNCHANGED next_conv
                 ELSE /\ next_conv' = next_conv + 1
                      /\ UNCHANGED <<pc, outputs>>
    /\ UNCHANGED <<prog, user_msgs, scores, agg, result, err, conversations,
                   all_metrics, avg_metrics, features>>

\* One turn of `for attempt in range(MAX_RETRIES)`, next_conv counting the
\* turns from 1: the call of the API, the try block on its reply, the return
\* of the result, or after the last turn the return of None.
Attempt ==
    /\ prog \in {"annotate_with_llm", "annotate_user"}
    /\ pc = "attempt"
    /\ \E reply \in Replies :
          LET r == IF prog = "annotate_with_llm"
                   THEN try_annotate_with_llm(reply)
                   ELSE try_annotate_user(reply, "u1", user_msgs)
          IN  /\ records' = Append(records, reply)
              /\ IF r # Raised
                 THEN /\ pc' = "returned"
                      /\ outputs' = <<[fn |-> prog, arg |-> user_msgs,
                                       value |-> r]>>
                      /\ UNCHANGED next_conv
                 ELSE IF next_conv = MAX_RETRIES
                 THEN /\ pc' = "returned"
                      /\ outputs' = <<[fn |-> prog, arg |-> user_msgs,
                                       value |-> ReturnsNone]>>
                      /\ UNCHANGED next_conv
                 ELSE /\ next_conv' = next_conv + 1
                      /\ UNCHANGED <<pc, outputs>>
    /\ UNCHANGED <<prog, user_msgs, scores, agg, result, err, conversations,
                   all_metrics, avg_metrics, features>>

RetryNext ==
    \/ CountUserMessages
    \/ Attempt

\* Each call of the API returns or raises, so a function that can take a
\* step does take it.
RetrySpec == RetryInit /\ [][RetryNext]_vars /\ WF_vars(RetryNext)

-----------------------------------------------------------------------------
(* The annotators: runs of main over the users, with the checkpoint *)

BATCH_SIZE == 10

\* The number of users of the input, and of conversations of a run for which
\* the LLM gives no annotation.
MaxUsers == 11
MaxFailed == 1

Annotators == {"llm_annotator_aligned", "llm_conversation_annotator"}

\* No checkpoint file on disk.
NoCheckpoint == [exists |-> FALSE, completed_users |-> {}, annotations |-> <<>>]

\* The keys of a dict kept as the sequence of its items, in insertion order.
Keys(annotations) == {annotations[i].user_id : i \in 1..Len(annotations)}

\* annotations[user_id] = ann on a dict: the item of the key is replaced, or
\* a new item is added at the end.
dict_set(annotations, user_id, ann) ==
    IF user_id \in Keys(annotations)
    THEN [i \in 1..Len(annotations) |->
            IF annotations[i].user_id = user_id
            THEN [user_id |-> user_id, ann |-> ann]
            ELSE annotations[i]]
    ELSE Append(annotations, [user_id |-> user_id, ann |-> ann])

\* [u for u in conversations.keys() if u not in completed_users]
users_to_annotate_unfiltered(users, completed_users) == users

users_to_annotate(users, completed_users) ==
    SelectSeq(users, LAMBDA u : u \notin completed_users)

\* What annotate_with_llm and annotate_user can return for a conversation
\* that is sent to the LLM.
annotate_returns(fn, user_id) ==
    {ReturnsNone}
    \cup ({IF fn = "llm_annotator_aligned" THEN try_annotate_with_llm(r)
           ELSE try_annotate_user(r, user_id, <<"hi", "why">>) :
              r \in Replies} \ {Raised})

\* `if result:` of main, for the values above.
Truthy(value) == value # ReturnsNone

\* The conversations of the run for which the LLM gave no annotation.
FailedCalls ==
    Len(SelectSeq(user_msgs, LAMBDA call : call.value # json_loads("annotation")
                                           /\ "user_id" \notin DOMAIN call.value))

RunInit ==
    /\ prog \in Annotators
    /\ pc = "idle"
    /\ \E n \in 0..MaxUsers :
       \E short \in {0, 1, n} :
          /\ conversations = [u \in 1..n |-> IF u = short THEN "short"
                                             ELSE "long"]
    /\ all_metrics = NoCheckpoint
    /\ records = <<>>
    /\ user_msgs = <<>>
    /\ scores = NoScores
    /\ agg = NoLocals
    /\ result = NoResult
    /\ err = "none"
    /\ avg_metrics = NoMetrics
    /\ next_conv = 1
    /\ outputs = <<>>
    /\ features = NoFeatures

\* main up to its loop: the conversations and the checkpoint are loaded, the
\* users left to annotate are listed. all_metrics is the checkpoint file
\* (CHECKPOINT_JSON of llm_annotator_aligned, output_json of
\* llm_conversation_annotator), records the annotations in memory, outputs
\* what the run loaded, user_msgs the calls of the LLM of the run.
StartRun ==
    /\ prog \in Annotators
    /\ pc \in {"idle", "finished"}
    /\ LET users == [u \in 1..Len(conversations) |-> u]
           completed_users ==
              IF prog = "llm_annotator_aligned"
              THEN all_metrics.completed_users
              ELSE Keys(all_metrics.annotations)
       IN  /\ agg' = [completed_users |-> completed_users,
                      users_to_annotate |->
                         users_to_annotate(users, completed_users)]
           /\ outputs' = <<[loaded |-> completed_users]>>
    /\ records' = all_metrics.annotations
    /\ user_msgs' = <<>>
    /\ next_conv' = 1
    /\ pc' = "loop"
    /\ UNCHANGED <<prog, scores, result, err, conversations, all_metrics,
                   avg_metrics, features>>

\* The annotations and the calls after the turn of the loop for user_id, of
\* llm_annotator_aligned.main: a short conversation and a call without
\* result get a fallback annotation.
aligned_turn(user_id, value) ==
    IF conversations[user_id] = "short"
    THEN [annotations |->
             dict_set(records, user_id,
                      fallback_annotation("Conversation too short to analyze")),
          calls |-> user_msgs]
    ELSE [annotations |->
             dict_set(records, user_id,
                      IF Truthy(value) THEN value
                      ELSE fallback_annotation("Annotation failed")),
          calls |-> Append(user_msgs, [user_id |-> user_id,
                                       value |-> value])]

\* The same of llm_conversation_annotator.main: annotate_user returns None
\* without a call for a short conversation, and only a result is appended.
older_turn(user_id, value) ==
    IF conversations[user_id] = "short"
    THEN [annotations |-> records, calls |-> user_msgs]
    ELSE [annotations |->
             IF Truthy(value)
             THEN Append(records, [user_id |-> user_id, ann |-> value])
             ELSE records,
          calls |-> Append(user_msgs, [user_id |-> user_id,
                                       value |-> value])]

\* One turn of the loop of main over the users left, next_conv being i + 1,
\* with the checkpoint saved every BATCH_SIZE turns.
Annotate ==
    /\ prog \in Annotators
    /\ pc = "loop"
    /\ next_conv <= Len(agg.users_to_annotate)
    /\ LET user_id == agg.users_to_annotate[next_conv]
       IN  \E value \in annotate_returns(prog, user_id) :
              LET turn == IF prog = "llm_annotator_aligned"
                          THEN aligned_turn(user_id, value)
                          ELSE older_turn(user_id, value)
                  completed_users ==
                     IF prog = "llm_annotator_aligned"
                     THEN agg.completed_users \cup {user_id}
                     ELSE agg.completed_users
              IN  /\ records' = turn.annotations
                  /\ user_msgs' = turn.calls
                  /\ agg' = [agg EXCEPT !.completed_users = completed_users]
                  /\ all_metrics' =
                        IF next_conv % BATCH_SIZE = 0
                        THEN [exists |-> TRUE,
                              completed_users |-> completed_users,
                              annotations |-> turn.annotations]
                        ELSE all_metrics
    /\ FailedCalls' <= MaxFailed
    /\ next_conv' = next_conv + 1
    /\ UNCHANGED <<prog, pc, scores, result, err, conversations, avg_metrics,
                   outputs, features>>

\* main after its loop: llm_annotator_aligned writes OUTPUT_JSON and
\* OUTPUT_CSV (result), llm_conversation_annotator saves its checkpoint once
\* more.
FinishRun ==
    /\ prog \in Annotators
    /\ pc = "loop"
    /\ next_conv > Len(agg.users_to_annotate)
    /\ IF prog = "llm_annotator_aligned"
       THEN /\ result' = records
            /\ UNCHANGED all_metrics
       ELSE /\ all_metrics' = [exists |-> TRUE,
                               completed_users |-> agg.completed_users,
                               annotations |-> records]
            /\ UNCHANGED result
    /\ pc' = "finished"
    /\ UNCHANGED <<prog, records, user_msgs, scores, agg, err, conversations,
                   avg_metrics, next_conv, outputs, features>>

\* The process is stopped inside the loop: what it held in memory is lost,
\* the files stay.
Interrupt ==
    /\ prog \in Annotators
    /\ pc = "loop"
    /\ pc' = "idle"
    /\ records' = <<>>
    /\ agg' = NoLocals
    /\ next_conv' = 1
    /\ UNCHANGED <<prog, user_msgs, scores, result, err, conversations,
                   all_metrics, avg_metrics, outputs, features>>

RunNext ==
    \/ StartRun
    \/ Annotate
    \/ FinishRun
    \/ Interrupt

RunSpec == RunInit /\ [][RunNext]_vars

-----------------------------------------------------------------------------
(* validate_pattern_classification.rule_based_classify *)

PATTERN_MAPPING ==
    [pattern \in {"A", "B", "C", "D", "E", "F"} |->
        CASE pattern = "A" -> 0 [] pattern = "B" -> 1 [] pattern = "C" -> 2
          [] pattern = "D" -> 3 [] pattern = "E" -> 4 [] pattern = "F" -> 5]

\* rule_based_classify, x being its features: the list of the twelve scores
\* in the order p1..r2.
rule_based_classify(x) ==
    LET p_avg == Div(x[1] + x[2] + x[3] + x[4], 4)
        m_avg == Div(x[5] + x[6] + x[7], 3)
        e_avg == Div(x[8] + x[9] + x[10], 3)
        r_avg == Div(x[11] + x[12], 2)
        total_score == SumSeq(x)
    IN  IF total_score <= 15 /\ FracLT(e_avg, Div(3, 2)) THEN 5
        ELSE IF total_score >= 28 /\ FracGE(e_avg, Div(5, 2))
                /\ FracGE(p_avg, Div(5, 2)) THEN 0
        ELSE IF FracGE(p_avg, Div(5, 2)) /\ FracGE(m_avg, Whole(2))
                /\ FracLT(r_avg, Whole(2)) THEN 1
        ELSE IF FracGE(m_avg, Div(5, 2)) /\ total_score >= 22 THEN 3
        ELSE IF FracGE(r_avg, Div(5, 2)) /\ FracGE(p_avg, Whole(2)) THEN 4
        ELSE 2

\* The score vectors as in ClassifyInit: every vector of {0..MaxScore}^12 up
\* to a reordering of the slots that both functions only add up.
ValidateInit ==
    /\ prog = "validate"
    /\ pc = "features"
    /\ records = <<>>
    /\ user_msgs = <<>>
    /\ \E p \in Sorted(4), m \in Sorted(3), e \in Sorted(3), r \in Sorted(2) :
          scores = Vector(p, m, e, r)
    /\ agg = NoLocals
    /\ result = NoResult
    /\ err = "none"
    /\ conversations = <<>>
    /\ all_metrics = <<>>
    /\ avg_metrics = NoMetrics
    /\ next_conv = 1
    /\ outputs = <<>>
    /\ features = NoFeatures

\* y_pred of validate_pattern_classification.main for the row of the scores.
RuleBasedClassify ==
    /\ prog = "validate"
    /\ pc = "features"
    /\ LET x == [i \in 1..Len(Dims) |-> scores[Dims[i]]]
       IN  outputs' = <<[fn |-> "rule_based_classify", arg |-> x,
                         value |-> rule_based_classify(x)]>>
    /\ pc' = "predicted"
    /\ UNCHANGED <<prog, records, user_msgs, scores, agg, result, err,
                   conversations, all_metrics, avg_metrics, next_conv,
                   features>>

\* classify_pattern of convert_conversation_to_metrics.py on the same scores.
ConvertClassify ==
    /\ prog = "validate"
    /\ pc = "predicted"
    /\ outputs' = Append(outputs,
                         [fn |-> "classify_pattern", arg |-> AsMetrics(scores),
                          value |-> convert_classify_pattern(AsMetrics(scores))])
    /\ pc' = "compared"
    /\ UNCHANGED <<prog, records, user_msgs, scores, agg, result, err,
                   conversations, all_metrics, avg_metrics, next_conv,
                   features>>

ValidateNext ==
    \/ RuleBasedClassify
    \/ ConvertClassify

ValidateSpec == ValidateInit /\ [][ValidateNext]_vars

-----------------------------------------------------------------------------
(* The score ladders on every combination of features *)

\* The largest keyword or pattern count a ladder is given.
MaxCount == 6

Counts == 0..MaxCount

\* The average lengths and the message counts a ladder is given: on both
\* sides of each threshold a ladder compares them with.
Lengths == {Whole(0), Whole(30), Div(61, 2), Whole(31), Whole(80), Whole(81),
            Whole(150), Whole(151)}
MessageCounts == {1, 3, 4, 10, 11, 20, 21}

\* The conditions of the `if`, the first `elif` and the second `elif` of the
\* ladder of dimension dim, on the features a the ladder reads.
conditions(dim, a) ==
    CASE dim = "P1" ->
            LET avg_len == a[1]
                keyword_count == a[2]
                detail_score == a[3]
            IN  [three |-> FracGT(avg_len, Whole(150)) /\ (keyword_count > 5 \/ detail_score > 2),
                 two |-> FracGT(avg_len, Whole(80)) /\ (keyword_count > 2 \/ detail_score > 0),
                 one |-> FracGT(avg_len, Whole(30))]
      [] dim = "P2" ->
            LET goal_mentions == a[1]
                measurable == a[2]
            IN  [three |-> measurable > 1 /\ goal_mentions > 2,
                 two |-> measurable > 0 \/ goal_mentions > 3,
                 one |-> goal_mentions > 0]
      [] dim = "P3" ->
            LET plan_mentions == a[1]
                step_score == a[2]
                alt_score == a[3]
            IN  [three |-> step_score > 2 /\ alt_score > 0,
                 two |-> step_score > 1 \/ plan_mentions > 3,
                 one |-> plan_mentions > 0]
      [] dim = "P4" ->
            LET role_mentions == a[1]
                boundary_mentions == a[2]
                role_pattern_score == a[3]
            IN  [three |-> role_pattern_score > 0 /\ boundary_mentions > 0,
                 two |-> role_pattern_score > 0 \/ role_mentions > 2,
                 one |-> role_mentions > 0 \/ boundary_mentions > 0]
      [] dim = "M1" ->
            LET msg_count == a[1]
                progress_mentions == a[2]
                tracking_score == a[3]
            IN  [three |-> tracking_score > 2 \/ (msg_count > 20 /\ progress_mentions > 3),
                 two |-> msg_count > 10 /\ progress_mentions > 1,
                 one |-> msg_count > 3]
      [] dim = "M2" ->
            LET check_mentions == a[1]
                quality_score == a[2]
            IN  [three |-> quality_score > 2 \/ check_mentions > 5,
                 two |-> quality_score > 0 \/ check_mentions > 2,
                 one |-> check_mentions > 0]
      [] dim = "M3" ->
            LET trust_mentions == a[1]
                trust_score == a[2]
                skeptic_score == a[3]
            IN  [three |-> trust_score > 1 /\ skeptic_score > 0,
                 two |-> trust_mentions + trust_score + skeptic_score > 3,
                 one |-> trust_mentions + trust_score + skeptic_score > 0]
      [] dim = "E1" ->
            LET eval_mentions == a[1]
                reason_score == a[2]
                multi_score == a[3]
            IN  [three |-> multi_score > 0 \/ (reason_score > 1 /\ eval_mentions > 2),
                 two |-> reason_score > 0,
                 one |-> eval_mentions > 0]
      [] dim = "E2" ->
            LET risk_mentions == a[1]
                risk_score == a[2]
            IN  [three |-> risk_score > 2 \/ (risk_mentions > 3 /\ risk_score > 0),
                 two |-> risk_score > 0 \/ risk_mentions > 1,
                 one |-> risk_mentions > 0]
      [] dim = "E3" ->
            LET cap_mentions == a[1]
                boundary_score == a[2]
            IN  [three |-> boundary_score > 1 \/ (cap_mentions > 2 /\ boundary_score > 0),
                 two |-> boundary_score > 0 \/ cap_mentions > 1,
                 one |-> cap_mentions > 0]
      [] dim = "R1" ->
            LET adj_mentions == a[1]
                active_score == a[2]
            IN  [three |-> active_score > 1 \/ (adj_mentions > 2 /\ active_score > 0),
                 two |-> active_score > 0 \/ adj_mentions > 1,
                 one |-> adj_mentions > 0]
      [] dim = "R2" ->
            LET tool_mentions == a[1]
                tool_score == a[2]
            IN  [three |-> tool_score > 2 \/ (tool_mentions > 3 /\ tool_score > 0),
                 two |-> tool_score > 0 \/ tool_mentions > 1,
                 one |-> tool_mentions > 0]

\* The score of the ladder of dimension dim on the features a.
ladder(dim, a) ==
    CASE dim = "P1" -> p1_ladder(a[1], a[2], a[3])
      [] dim = "P2" -> p2_ladder(a[1], a[2])
      [] dim = "P3" -> p3_ladder(a[1], a[2], a[3])
      [] dim = "P4" -> p4_ladder(a[1], a[2], a[3])
      [] dim = "M1" -> m1_ladder(a[1], a[2], a[3])
      [] dim = "M2" -> m2_ladder(a[1], a[2])
      [] dim = "M3" -> m3_ladder(a[1], a[2], a[3])
      [] dim = "E1" -> e1_ladder(a[1], a[2], a[3])
      [] dim = "E2" -> e2_ladder(a[1], a[2])
      [] dim = "E3" -> e3_ladder(a[1], a[2])
      [] dim = "R1" -> r1_ladder(a[1], a[2])
      [] dim = "R2" -> r2_ladder(a[1], a[2])

\* The features each ladder reads, in the order of its parameters.
LadderArgs(dim) ==
    CASE dim = "P1" -> Lengths \X Counts \X Counts
      [] dim = "M1" -> MessageCounts \X Counts \X Counts
      [] dim \in {"P3", "P4", "M3", "E1"} -> Counts \X Counts \X Counts
      [] OTHER -> Counts \X Counts

LadderInit ==
    /\ prog = "ladder"
    /\ pc = "features"
    /\ \E dim \in DimSet : \E a \in LadderArgs(dim) :
          features = [dim |-> dim, args |-> a]
    /\ records = <<>>
    /\ user_msgs = <<>>
    /\ scores = NoScores
    /\ agg = NoLocals
    /\ result = NoResult
    /\ err = "none"
    /\ conversations = <<>>
    /\ all_metrics = <<>>
    /\ avg_metrics = NoMetrics
    /\ next_conv = 1
    /\ outputs = <<>>

\* The scorer of features.dim runs its ladder on the features and returns.
RunLadder ==
    /\ prog = "ladder"
    /\ pc = "features"
    /\ outputs' = <<[fn |-> features.dim, arg |-> features.args,
                     value |-> ladder(features.dim, features.args)]>>
    /\ pc' = "returned"
    /\ UNCHANGED <<prog, records, user_msgs, scores, agg, result, err,
                   conversations, all_metrics, avg_metrics, next_conv,
                   features>>

LadderNext == RunLadder

LadderSpec == LadderInit /\ [][LadderNext]_vars

-----------------------------------------------------------------------------
(* Properties of the score ranges and of the empty transcript *)

\* C1: range invariant. Once score_user has run, each of the twelve aligned
\* scores is an integer of 0..3 and total_score lies in 0..36; every metric
\* analyze_conversation returned, and every rounded per-user average
\* convert_csv_to_metrics built from those metrics, is an integer of 0..3.
RangeInvariant ==
    /\ (prog = "aligned" /\ pc = "scored") =>
          /\ DOMAIN scores = DimSet
          /\ \A d \in DimSet : scores[d] \in 0..3
          /\ result.total_score \in 0..36
    /\ prog = "convert" =>
          /\ \A i \in 1..Len(all_metrics) :
                /\ DOMAIN all_metrics[i] = MetricKeys
                /\ \A key \in MetricKeys : all_metrics[i][key] \in 0..3
          /\ pc = "emitted" =>
                \A key \in MetricKeys : avg_metrics[key] \in 0..3

\* A user of several messages whose scores take both ends of the range.
RangeWitness ==
    /\ prog = "aligned"
    /\ pc = "scored"
    /\ Len(user_msgs) > 1
    /\ \E d \in DimSet : scores[d] = 3
    /\ \E d \in DimSet : scores[d] = 0
    /\ result.total_score >= 10

\* A record with both fields and a text that is a string.
WellFormedRecord(r) ==
    /\ "sender" \in DOMAIN r
    /\ "text" \in DOMAIN r
    /\ r.text # None

\* The text is empty or made of blanks only.
IsBlank(t) == \A i \in 1..Len(t) : SubSeq(t, i, i) \in {" ", "\t"}

\* Well-formed records none of which is a user record with a non-blank text.
NoHumanMessage(rs) ==
    \A i \in 1..Len(rs) :
        /\ WellFormedRecord(rs[i])
        /\ rs[i].sender = "user" => IsBlank(rs[i].text)

\* C2: empty-input law. On a transcript without a non-blank user message (no
\* record at all, no user record, or only blank user texts) get_user_messages
\* raises nothing and returns the empty list, and score_user on it gives
\* twelve scores of 0, total_score 0, pattern F and confidence 0.9.
EmptyInputLaw ==
    (prog = "aligned" /\ NoHumanMessage(records)) =>
        /\ pc # "raised"
        /\ err = "none"
        /\ pc \in {"extracted", "scored"} => user_msgs = <<>>
        /\ pc = "scored" =>
              /\ scores = [d \in DimSet |-> 0]
              /\ result = [pattern |-> "F", confidence |-> 90,
                           total_score |-> 0]

\* A scored transcript that holds a blank user text and another sender's
\* record, and no human message.
EmptyInputWitness ==
    /\ prog = "aligned"
    /\ pc = "scored"
    /\ NoHumanMessage(records)
    /\ \E i \in 1..Len(records) : records[i].sender = "user"
    /\ \E i \in 1..Len(records) : records[i].sender = "assistant"

-----------------------------------------------------------------------------
(* Properties of the aligned classify_pattern on every score vector *)

PSum == scores["P1"] + scores["P2"] + scores["P3"] + scores["P4"]
MSum == scores["M1"] + scores["M2"] + scores["M3"]
ESum == scores["E1"] + scores["E2"] + scores["E3"]
RSum == scores["R1"] + scores["R2"]
Total12 == PSum + MSum + ESum + RSum

\* The classifier has returned.
Classified == prog = "classify" /\ pc = "classified"

\* total <= 15 and E1 <= 1
FCondition == Total12 <= 15 /\ scores["E1"] <= 1

\* C3 as the specification words it: the classifier returns F for every
\* vector with total <= 15 and e_avg = (E1 + E2 + E3) / 3 <= 1.
FByEAverage ==
    (Classified /\ Total12 <= 15 /\ ESum <= 3) => result.pattern = "F"

\* C3: among the vectors with total <= 15 and e_avg <= 1, the classifier
\* returns F exactly for those with E1 <= 1; the other dimensions do not
\* matter.
FByEAverageAndE1 ==
    (Classified /\ Total12 <= 15 /\ ESum <= 3) =>
        (result.pattern = "F" <=> scores["E1"] <= 1)

\* A vector with total <= 15 and e_avg = 1 that is not classified F.
FByEAverageWitness ==
    /\ Classified
    /\ Total12 <= 15
    /\ ESum = 3
    /\ scores["E1"] = 3
    /\ result.pattern # "F"

\* C4: priority of F. A vector with total <= 15 and E1 <= 1 is classified F
\* even when a later rule also matches, and no other vector is classified F.
FPriority ==
    Classified => (result.pattern = "F" <=> FCondition)

\* A vector classified F that also meets rule B (m_avg >= 2).
FPriorityWitness ==
    /\ Classified
    /\ FCondition
    /\ MSum >= 2 * 3
    /\ result.pattern = "F"

\* The pattern of the first rule that holds, in the order A, D, E, B, else C,
\* with each average compared as a sum: x_avg >= c is sum >= c * size.
FirstRule ==
    IF 2 * PSum >= 5 * 4 /\ ESum >= 2 * 3 THEN "A"
    ELSE IF 2 * ESum >= 5 * 3 THEN "D"
    ELSE IF 2 * RSum >= 5 * 2 /\ PSum >= 2 * 4 /\ ESum >= 2 * 3 THEN "E"
    ELSE IF MSum >= 2 * 3 THEN "B"
    ELSE "C"

\* C5: for a vector that does not meet the F-condition the classifier returns
\* the pattern of the first rule that holds in the order A, D, E, B, and C
\* when none holds; it returns one of the six patterns for every vector.
FirstMatchWins ==
    Classified =>
        /\ result.pattern \in {"A", "B", "C", "D", "E", "F"}
        /\ ~FCondition => result.pattern = FirstRule

\* A vector that meets rule E and rule B and is classified E.
FirstMatchWitness ==
    /\ Classified
    /\ ~FCondition
    /\ result.pattern = "E"
    /\ MSum >= 2 * 3

\* C6: A is checked before D. A vector with p_avg >= 2.5 and e_avg >= 2.5
\* is classified A, never D and never F.
ABeforeD ==
    (Classified /\ 2 * PSum >= 5 * 4 /\ 2 * ESum >= 5 * 3) =>
        result.pattern = "A"

\* All P = 3 with an E-sum of 8 (e_avg about 2.67), classified A.
ABeforeDWitness ==
    /\ Classified
    /\ PSum = 12
    /\ ESum = 8
    /\ result.pattern = "A"

\* The confidence of each pattern, in hundredths.
ConfidenceOf(pattern) ==
    CASE pattern = "F" -> 90
      [] pattern = "A" -> 85
      [] pattern = "D" -> 85
      [] pattern = "E" -> 80
      [] pattern = "B" -> 80
      [] pattern = "C" -> 70

\* C7: the confidence is a fixed function of the returned pattern (F 0.9,
\* A 0.85, D 0.85, E 0.8, B 0.8, C 0.7), so it lies in (0, 1].
ConfidenceByPattern ==
    Classified =>
        /\ result.confidence = ConfidenceOf(result.pattern)
        /\ result.confidence > 0
        /\ result.confidence <= 100

\* A low-total vector classified C with confidence 0.7.
ConfidenceWitness ==
    /\ Classified
    /\ result.pattern = "C"
    /\ Total12 < 18
    /\ result.confidence = 70

\* C8: aggregation. The total classify_pattern uses and the total_score
\* score_user reports are both the sum of the twelve scores, and the group
\* averages are the sums of the P, M, E and R scores over 4, 3, 3 and 2.
Aggregation ==
    Classified =>
        /\ agg.total = Total12
        /\ result.total_score = Total12
        /\ agg.p_avg = [num |-> PSum, den |-> 4]
        /\ agg.m_avg = [num |-> MSum, den |-> 3]
        /\ agg.e_avg = [num |-> ESum, den |-> 3]
        /\ agg.r_avg = [num |-> RSum, den |-> 2]

\* A vector whose four group sums differ.
AggregationWitness ==
    /\ Classified
    /\ PSum = 7
    /\ MSum = 4
    /\ ESum = 5
    /\ RSum = 3
    /\ result.total_score = 19

-----------------------------------------------------------------------------
(* Properties of get_user_messages *)

\* The indices of the records get_user_messages is to keep.
KeptIndices(rs) ==
    {i \in 1..Len(rs) : rs[i].sender = "user" /\ ~IsBlank(rs[i].text)}

\* C9: extraction is an order-preserving filter. On well-formed records
\* get_user_messages raises nothing and returns the texts of exactly the
\* records whose sender is 'user' and whose text is not blank, each once,
\* unaltered and in the order of the records.
OrderPreservingFilter ==
    (prog = "aligned" /\ \A i \in 1..Len(records) : WellFormedRecord(records[i]))
    =>  /\ pc # "raised"
        /\ pc \in {"extracted", "scored"} =>
              LET kept == KeptIndices(records)
              IN  /\ Len(user_msgs) = Cardinality(kept)
                  /\ \A i \in kept :
                        user_msgs[Cardinality({j \in kept : j <= i})]
                            = records[i].text

\* Two different user texts kept in their order.
FilterWitness ==
    /\ prog = "aligned"
    /\ pc = "extracted"
    /\ Len(records) = 2
    /\ Len(user_msgs) = 2
    /\ user_msgs[1] # user_msgs[2]

\* C10 as the specification words it: a record without sender, without text
\* or with a None text makes get_user_messages raise nothing; the call
\* returns the texts of the other records.
MalformedNeverRaises ==
    (prog = "aligned" /\ pc # "load"
     /\ \E i \in 1..Len(records) : ~WellFormedRecord(records[i]))
    =>  /\ pc \in {"extracted", "scored"}
        /\ err = "none"

\* get_user_messages raised on a user record whose text is None.
NoneTextRaises ==
    /\ prog = "aligned"
    /\ pc = "raised"
    /\ err = "AttributeError"
    /\ records = <<[sender |-> "user", text |-> None]>>

-----------------------------------------------------------------------------
(* Properties of repeated calls *)

-----------------------------------------------------------------------------
(* Properties of the aligned scorers on a longer message list *)

\* The tables each scorer counts hits of.
TriggerTables ==
    [d \in DimSet |->
        CASE d = "P1" -> {"understanding_keywords", "detailed_patterns"}
          [] d = "P2" -> {"goal_keywords", "measurable_patterns"}
          [] d = "P3" -> {"plan_keywords", "step_patterns",
                          "alternative_patterns"}
          [] d = "P4" -> {"role_keywords", "boundary_keywords",
                          "role_patterns"}
          [] d = "M1" -> {"progress_keywords", "tracking_patterns"}
          [] d = "M2" -> {"check_keywords", "quality_patterns"}
          [] d = "M3" -> {"trust_keywords", "trust_patterns",
                          "skeptic_patterns"}
          [] d = "E1" -> {"eval_keywords", "reason_patterns", "multi_patterns"}
          [] d = "E2" -> {"risk_keywords", "risk_patterns"}
          [] d = "E3" -> {"cap_keywords", "boundary_patterns"}
          [] d = "R1" -> {"adj_keywords", "active_patterns"}
          [] d = "R2" -> {"tool_keywords", "tool_patterns"}]

\* Message m hits an entry of a table of dimension d.
Triggers(d, m) == \E t \in TriggerTables[d] : MessageHits[m][t] > 0

\* The human messages that can be appended: the non-blank texts.
HumanTexts == {m \in Texts : ~IsBlank(m)}

\* The sum of the lengths of the messages.
TotalLen(msgs) == SumSeq([i \in 1..Len(msgs) |-> Len(msgs[i])])

\* C13 as the specification words it: appending a human message with
\* trigger keywords of a dimension never lowers the score of that dimension,
\* for each of the twelve dimensions, P1 included.
AppendNeverLowers ==
    (prog = "aligned" /\ pc = "scored") =>
        \A m \in HumanTexts :
            LET after == user_scores(Append(user_msgs, m))
            IN  \A d \in DimSet : Triggers(d, m) => after[d] >= scores[d]

\* C13: appending a human message with trigger keywords of a dimension never
\* lowers the score of that dimension for the eleven dimensions other than
\* P1, and for P1 when the appended message is at least as long as the
\* average of the messages before it.
AppendNeverLowersButP1 ==
    (prog = "aligned" /\ pc = "scored") =>
        \A m \in HumanTexts :
            LET after == user_scores(Append(user_msgs, m))
            IN  \A d \in DimSet :
                    (/\ Triggers(d, m)
                     /\ d = "P1" =>
                            Len(m) * Len(user_msgs) >= TotalLen(user_msgs))
                    => after[d] >= scores[d]

\* A scored list whose P1 score a further message with a P1 trigger, shorter
\* than the average, would lower.
AppendLowersP1 ==
    /\ prog = "aligned"
    /\ pc = "scored"
    /\ \E m \in HumanTexts :
          /\ Triggers("P1", m)
          /\ score_p1_task_understanding(Append(user_msgs, m)) < scores["P1"]

-----------------------------------------------------------------------------
(* Properties of the records the producers emit *)

\* The twelve dimension fields of an emitted record.
Fields(rec) == [key \in MetricKeys |-> rec[key]]

\* C14: output record consistency. Every record load_batch_file returns and
\* every row llm_annotator_aligned.main writes has its twelve dimension
\* fields p1..r2 in 0..3 and a total_score equal to their sum.
RecordConsistency ==
    prog \in {"load_batch", "annotate"} =>
        \A i \in 1..Len(all_metrics) :
            /\ \A key \in MetricKeys : all_metrics[i][key] \in 0..3
            /\ all_metrics[i].total_score
                 = SumValues(Fields(all_metrics[i]), MetricKeys)

\* load_batch_file has returned a record whose fields are all on the scale and
\* whose total_score is not their sum.
TotalNotTheSum ==
    /\ prog = "load_batch"
    /\ pc = "done"
    /\ \E i \in 1..Len(all_metrics) :
          /\ "scores" \in DOMAIN records[i]
          /\ \A key \in MetricKeys : all_metrics[i][key] = 3
          /\ all_metrics[i].total_score = 2

-----------------------------------------------------------------------------
(* Properties of single scorers *)

\* Some message of msgs has a hit in the table.
SomeHit(table, msgs) ==
    \E i \in 1..Len(msgs) : MessageHits[msgs[i]][table] > 0

\* C15: role definition. Once a user is scored, if at least one of the
\* messages matches a strong role pattern then P4 is at least 2, and P4 is 3
\* exactly when some message also holds a boundary keyword.
RoleDefinition ==
    (prog = "aligned" /\ pc = "scored" /\ SomeHit("role_patterns", user_msgs)) =>
        /\ scores["P4"] >= 2
        /\ scores["P4"] = 3 <=> SomeHit("boundary_keywords", user_msgs)

\* A scored user with P4 = 3 whose role pattern and boundary keyword come
\* from two messages: one matches a role pattern and holds no boundary
\* keyword, the other holds a boundary keyword.
RoleDefinitionWitness ==
    /\ prog = "aligned"
    /\ pc = "scored"
    /\ scores["P4"] = 3
    /\ \E i, j \in 1..Len(user_msgs) :
          /\ MessageHits[user_msgs[i]].role_patterns > 0
          /\ MessageHits[user_msgs[i]].boundary_keywords = 0
          /\ MessageHits[user_msgs[j]].boundary_keywords > 0

\* C16: multi-dimensional evaluation. Once a user is scored, if at least one
\* of the messages matches a multi-dimensional pattern then E1 is 3, whatever
\* the counts of reasoned-evaluation patterns and of evaluation keywords.
MultiDimensionalEvaluation ==
    (prog = "aligned" /\ pc = "scored" /\ SomeHit("multi_patterns", user_msgs)) =>
        scores["E1"] = 3

\* A scored user with E1 = 3 on a multi-dimensional match alone: no reasoned
\* evaluation and no evaluation keyword in any message.
MultiDimensionalWitness ==
    /\ prog = "aligned"
    /\ pc = "scored"
    /\ SomeHit("multi_patterns", user_msgs)
    /\ ~SomeHit("reason_patterns", user_msgs)
    /\ ~SomeHit("eval_keywords", user_msgs)
    /\ scores["E1"] = 3

\* C17: process tracking at twenty messages, as claimed. Once a user is
\* scored, if there are at least twenty human messages and progress keywords
\* are hit more than 3 times then M1 is 3.
TrackingFromTwenty ==
    (/\ prog = "aligned"
     /\ pc = "scored"
     /\ Len(user_msgs) >= 20
     /\ Count("progress_keywords", user_msgs) > 3) =>
        scores["M1"] = 3

\* C17: process tracking past twenty messages. Once a user is scored, if
\* progress keywords are hit more than 3 times then M1 is 3 with more than
\* twenty human messages, and M1 is 2 with exactly twenty human messages and
\* at most 2 tracking pattern matches.
TrackingPastTwenty ==
    (/\ prog = "aligned"
     /\ pc = "scored"
     /\ Count("progress_keywords", user_msgs) > 3) =>
        /\ Len(user_msgs) > 20 => scores["M1"] = 3
        /\ (Len(user_msgs) = 20 /\ Count("tracking_patterns", user_msgs) <= 2) =>
              scores["M1"] = 2

\* A scored user with twenty-one human messages, more than 3 progress keyword
\* hits, no tracking pattern match, and M1 = 3.
TrackingPastTwentyWitness ==
    /\ prog = "aligned"
    /\ pc = "scored"
    /\ Len(user_msgs) = 21
    /\ Count("progress_keywords", user_msgs) > 3
    /\ Count("tracking_patterns", user_msgs) = 0
    /\ scores["M1"] = 3

-----------------------------------------------------------------------------
(* The two classifiers side by side *)

\* C18: the two classify_pattern implementations diverge. Once the driver has
\* called both on the same score vector: if both return F, B, D or E then
\* their confidences differ (F is 0.9 against 0.85); and a vector the aligned
\* classifier calls F whose P average is at least 2 or whose E average is at
\* least 1.5 is not F for the classifier of the conversion. On the all-zero
\* vector the two return F with 0.9 and F with 0.85.
ClassifiersDiverge ==
    (prog = "rerun_classify" /\ Len(outputs) >= 4) =>
        LET aligned == outputs[1].value
            convert == outputs[2].value
            l == classify_locals(outputs[1].arg)
        IN  /\ outputs[1].arg = scores
            /\ outputs[2].arg = AsMetrics(scores)
            /\ (aligned.pattern = convert.pattern
                /\ aligned.pattern \in {"F", "B", "D", "E"}) =>
                  aligned.confidence # convert.confidence
            /\ (aligned.pattern = "F"
                /\ (FracGE(l.p_avg, Whole(2)) \/ FracGE(l.e_avg, Div(3, 2)))) =>
                  convert.pattern # "F"
            /\ outputs[3].value = [pattern |-> "F", confidence |-> 90]
            /\ outputs[4].value = [pattern |-> "F", confidence |-> 85]

\* The driver has called both classifiers on a vector on which they return
\* different patterns, and on a vector on which they return the same pattern
\* with different confidences.
ClassifiersDivergeWitness ==
    /\ prog = "rerun_classify"
    /\ Len(outputs) >= 4
    /\ outputs[1].value.pattern # outputs[2].value.pattern
    /\ outputs[2].arg = AsMetrics(outputs[1].arg)
    /\ outputs[3].value.pattern = outputs[4].value.pattern
    /\ outputs[3].value.confidence # outputs[4].value.confidence
    /\ outputs[4].arg = AsMetrics(outputs[3].arg)

-----------------------------------------------------------------------------
(* Properties of the conversion on a user without human text *)

\* No conversation of the user holds a user message with text other than
\* whitespace.
NoHumanText ==
    \A i \in 1..Len(conversations) :
        \A j \in 1..Len(conversations[i].messages) :
            conversations[i].messages[j].sender = "user" =>
                Strip(conversations[i].messages[j].text) = ""

\* C19: empty input in the conversion. Once convert_csv_to_metrics is through
\* with a user whose conversations hold no non-empty human message, the user
\* is emitted, not skipped, with all twelve scores 0 and pattern F.
ConvertEmptyInputLaw ==
    (prog = "convert" /\ pc \in {"emitted", "skipped"} /\ NoHumanText) =>
        /\ pc = "emitted"
        /\ avg_metrics = NoMetrics
        /\ result.pattern = "F"

\* A user whose only human messages are empty is emitted with the scores of
\* the else branches of analyze_conversation: ten 1s, m1 = 0 and e1 = 0.
EmptyTextsScoreTen ==
    /\ prog = "convert"
    /\ pc = "emitted"
    /\ NoHumanText
    /\ \E i \in 1..Len(conversations) :
          \E j \in 1..Len(conversations[i].messages) :
              conversations[i].messages[j].sender = "user"
    /\ avg_metrics = [key \in MetricKeys |->
                        IF key \in {"m1", "e1"} THEN 0 ELSE 1]
    /\ result = [pattern |-> "F", confidence |-> 85, total_score |-> 10]

-----------------------------------------------------------------------------
(* Properties of the conditions of the ladders *)

\* The conditions of the ladder that has run, on the features it was given.
Ran == conditions(features.dim, features.args)

\* C20: the ladder conditions are nested, as claimed. In each of the twelve
\* scorers every combination of features that satisfies the condition for
\* score 3 satisfies the condition for score 2, and every combination that
\* satisfies the condition for score 2 satisfies the condition for score 1.
LadderConditionsNested ==
    (prog = "ladder" /\ pc = "returned") =>
        /\ Ran.three => Ran.two
        /\ Ran.two => Ran.one

\* C20: the ladder conditions, as they are. The score a ladder returns is that
\* of the first of its conditions that holds, 0 if none does. The condition
\* for 3 implies the condition for 2 in the ladders of P1, P2, P3, P4, M2, E2,
\* E3, R1 and R2; the condition for 2 implies the condition for 1 in the
\* ladders of P1, M1 and M3.
LadderConditionsFirstMatch ==
    (prog = "ladder" /\ pc = "returned") =>
        /\ outputs[1].value = IF Ran.three THEN 3
                              ELSE IF Ran.two THEN 2
                              ELSE IF Ran.one THEN 1
                              ELSE 0
        /\ features.dim \in {"P1", "P2", "P3", "P4", "M2", "E2", "E3", "R1", "R2"} =>
              (Ran.three => Ran.two)
        /\ features.dim \in {"P1", "M1", "M3"} => (Ran.two => Ran.one)

\* The ladder of P2 has returned 2 on features that satisfy its condition for
\* 2 and not its condition for 1: a measurable pattern match and no goal
\* keyword.
NotNestedWitness ==
    /\ prog = "ladder"
    /\ pc = "returned"
    /\ features.dim = "P2"
    /\ Ran.two
    /\ ~Ran.one
    /\ outputs[1].value = 2

-----------------------------------------------------------------------------
(* Properties of the estimated scores *)

\* C21: the estimator adjusts the template to the total. Whatever the pattern
\* and the order of the shuffle, when the total is in 0..36 the twelve scores
\* estimate_scores_from_pattern_and_total returns are each in 0..3 and add up
\* to the total.
EstimateMatchesTotal ==
    (/\ prog = "estimate"
     /\ pc = "returned"
     /\ records[1].total \in 0..(Len(Dims) * MaxScore)) =>
        /\ DOMAIN scores = DimSet
        /\ \A d \in DimSet : scores[d] \in 0..MaxScore
        /\ SumValues(scores, DimSet) = records[1].total

\* The estimator has returned for a pattern that has no template and a total
\* below that of the C template: scores that differ from the C template and
\* add up to the total.
EstimateWitness ==
    /\ prog = "estimate"
    /\ pc = "returned"
    /\ records[1].pattern = "X"
    /\ records[1].total = 9
    /\ scores # PATTERN_SCORE_TEMPLATES["C"]
    /\ scores["P2"] = 0
    /\ SumValues(scores, DimSet) = 9

-----------------------------------------------------------------------------
(* Properties of the metrics of a conversation *)

\* The number of critical keywords in the joined, lowered user texts of a
\* message list.
CriticalCount(messages) ==
    LET user_messages == SelectSeq(messages, LAMBDA m : m.sender = "user")
    IN  CountIn(CRITICAL_KEYWORDS,
                Join(" ", [i \in 1..Len(user_messages) |->
                              Lower(user_messages[i].text)]))

\* C22: E2 of analyze_conversation by the number of critical keywords. Every
\* metrics dict analyze_conversation has returned holds e2 = 1 when no
\* critical keyword is in the user text, 2 when one or two are, and 3 when
\* more than two are.
CriticalEvaluationLadder ==
    \A i \in 1..Len(outputs) :
        (outputs[i].fn = "analyze_conversation"
         /\ outputs[i].value # ReturnsNone) =>
            outputs[i].value.e2
              = LET critical_count == CriticalCount(outputs[i].arg)
                IN  IF critical_count = 0 THEN 1
                    ELSE IF critical_count <= 2 THEN 2
                    ELSE 3

\* analyze_conversation has returned e2 = 1 for a conversation whose user text
\* holds three critical keywords.
ThreeCriticalKeywordsScoreOne ==
    \E i \in 1..Len(outputs) :
        /\ outputs[i].fn = "analyze_conversation"
        /\ outputs[i].value # ReturnsNone
        /\ CriticalCount(outputs[i].arg) = 3
        /\ outputs[i].value.e2 = 1

\* The patterns classify_pattern can name.
Patterns == {"A", "B", "C", "D", "E", "F"}

\* C23: the conversion classifies into all of A-F. Once a user is emitted,
\* each of the six patterns is the pattern classify_pattern gives to the
\* metrics of some conversation.
AllPatternsClassified ==
    (prog = "convert" /\ pc = "emitted") =>
        \A target \in Patterns :
            \E messages \in MessageLists :
                /\ Analysis[messages] # ReturnsNone
                /\ convert_classify_pattern(Analysis[messages]).pattern = target

\* A user is emitted whose metrics meet the total and the P average of rule A
\* with the highest E scores analyze_conversation gives, e1 = 3, e2 = 2 and
\* e3 = 2, and whose pattern is not A.
HighestEvaluationNotA ==
    /\ prog = "convert"
    /\ pc = "emitted"
    /\ result.total_score >= 28
    /\ FracGE(agg.p_avg, Div(5, 2))
    /\ avg_metrics["e1"] = 3
    /\ avg_metrics["e2"] = 2
    /\ avg_metrics["e3"] = 2
    /\ result.pattern # "A"

-----------------------------------------------------------------------------
(* Properties of the rules of the aligned classifier *)

\* One score vector for each rule: all 0; all 3; the E scores 3 alone; the P
\* and E scores 2 and the R scores 3; the M scores 3 and E1 = 2; E1 = 2 alone.
RuleExamples ==
    {Vector(<<0, 0, 0, 0>>, <<0, 0, 0>>, <<0, 0, 0>>, <<0, 0>>),
     Vector(<<3, 3, 3, 3>>, <<3, 3, 3>>, <<3, 3, 3>>, <<3, 3>>),
     Vector(<<0, 0, 0, 0>>, <<0, 0, 0>>, <<3, 3, 3>>, <<0, 0>>),
     Vector(<<2, 2, 2, 2>>, <<0, 0, 0>>, <<2, 2, 2>>, <<3, 3>>),
     Vector(<<0, 0, 0, 0>>, <<3, 3, 3>>, <<2, 0, 0>>, <<0, 0>>),
     Vector(<<0, 0, 0, 0>>, <<0, 0, 0>>, <<2, 0, 0>>, <<0, 0>>)}

\* The patterns the classifier gives the examples.
LivePatterns == {classify_pattern(s).pattern : s \in RuleExamples}

\* C24: every rule of the aligned classifier is live. Each of the six
\* patterns is the pattern of some score vector; and a vector the classifier
\* calls E has p_avg and e_avg both at least 2 and below 2.5, and r_avg at
\* least 2.5, rules A and D being checked before rule E.
EveryRuleLive ==
    Classified =>
        /\ LivePatterns = Patterns
        /\ result.pattern = "E" =>
              /\ FracGE(agg.p_avg, Whole(2)) /\ FracLT(agg.p_avg, Div(5, 2))
              /\ FracGE(agg.e_avg, Whole(2)) /\ FracLT(agg.e_avg, Div(5, 2))
              /\ FracGE(agg.r_avg, Div(5, 2))

\* A vector classified E at 0.8 with p_avg = 2.25 and e_avg = 7/3, the
\* highest averages rule E is reached with.
EveryRuleLiveWitness ==
    /\ Classified
    /\ result.pattern = "E"
    /\ result.confidence = 80
    /\ PSum = 9
    /\ ESum = 7

-----------------------------------------------------------------------------
(* Properties of the ladders as functions of their features *)

\* Feature i of the ladder of dim is higher in b than in a; the first feature
\* of P1 is a quotient.
Higher(dim, i, a, b) ==
    IF dim = "P1" /\ i = 1 THEN FracGT(b[i], a[i]) ELSE b[i] > a[i]

\* The features that are a with one feature raised and the others kept.
OneRaised(dim, a) ==
    {b \in LadderArgs(dim) :
        \E i \in DOMAIN a :
            /\ Higher(dim, i, a, b)
            /\ \A j \in DOMAIN a \ {i} : b[j] = a[j]}

\* C25: each ladder is monotone in its features. Once a ladder has returned,
\* it returns no lower score on the same features with any one of them raised
\* (a keyword count, a pattern count, the message count or the average
\* length) and the others kept.
LadderMonotone ==
    (prog = "ladder" /\ pc = "returned") =>
        \A b \in OneRaised(features.dim, features.args) :
            ladder(features.dim, b) >= outputs[1].value

\* The ladder of M1 has returned 2 on eleven messages, and returns 3 on the
\* same features with the tracking pattern count raised alone.
LadderMonotoneWitness ==
    /\ prog = "ladder"
    /\ pc = "returned"
    /\ features.dim = "M1"
    /\ features.args[1] = 11
    /\ outputs[1].value = 2
    /\ \E b \in OneRaised("M1", features.args) :
          b[3] > features.args[3] /\ ladder("M1", b) = 3

-----------------------------------------------------------------------------
(* Properties of the retry loops *)

\* The try block of the running function raised on the reply.
Failed(reply) ==
    Raised = IF prog = "annotate_with_llm" THEN try_annotate_with_llm(reply)
             ELSE try_annotate_user(reply, "u1", user_msgs)

\* The function has returned.
Returned == prog \in {"annotate_with_llm", "annotate_user"} /\ pc = "returned"

\* C26 as claimed: at most MAX_RETRIES calls; a returned result is a reply that
\* parsed and validated ('scores' and 'pattern' present), every call before
\* it failed; None is returned only after MAX_RETRIES failed calls.
RetryAsClaimed ==
    /\ Len(records) <= MAX_RETRIES
    /\ Returned =>
          IF outputs[1].value = ReturnsNone
          THEN Len(records) = MAX_RETRIES
               /\ \A i \in 1..Len(records) : Failed(records[i])
          ELSE /\ {"scores", "pattern"} \subseteq DOMAIN outputs[1].value
               /\ \A i \in 1..(Len(records) - 1) : Failed(records[i])

\* The state part of C26: at most MAX_RETRIES calls; a returned result is what
\* the last reply parsed to, every call before it failed, and annotate_user
\* returns only results with 'scores' and 'pattern'; None is returned after
\* MAX_RETRIES failed calls, or by annotate_user without any call for fewer
\* than two user messages, or by annotate_with_llm on a reply that is the
\* JSON null.
RetryBounded ==
    /\ Len(records) <= MAX_RETRIES
    /\ Returned =>
          /\ \A i \in 1..(Len(records) - 1) : Failed(records[i])
          /\ IF outputs[1].value = ReturnsNone
             THEN \/ Len(records) = MAX_RETRIES /\ Failed(records[MAX_RETRIES])
                  \/ prog = "annotate_user" /\ records = <<>>
                     /\ Len(user_msgs) < 2
                  \/ prog = "annotate_with_llm" /\ records # <<>>
                     /\ records[Len(records)].body = "null"
             ELSE /\ records # <<>>
                  /\ ~Failed(records[Len(records)])
                  /\ prog = "annotate_user" =>
                        {"scores", "pattern"} \subseteq DOMAIN outputs[1].value

\* C26: bounded retry. The function never issues more than MAX_RETRIES calls,
\* returns as said above, and always returns, whatever the API errors and
\* the replies are.
BoundedRetry == []RetryBounded /\ <>Returned

\* annotate_with_llm has returned, after one failed call, a reply that parsed
\* to an object without 'scores': the second call was the last.
RetryWitness ==
    /\ prog = "annotate_with_llm"
    /\ pc = "returned"
    /\ Len(records) = 2
    /\ records[1].error
    /\ records[2].body = "object"
    /\ outputs[1].value = [reasoning |-> "unclear"]

-----------------------------------------------------------------------------
(* Properties of the runs of the annotators *)

\* A run of an annotator is going on or has finished.
InRun == prog \in Annotators /\ pc \in {"loop", "finished"}

\* No two items of the annotations are of the same user.
OneEntryEach(annotations) ==
    \A i, j \in 1..Len(annotations) :
        annotations[i].user_id = annotations[j].user_id => i = j

\* C27: resume never repeats work. In a run of either annotator no user that
\* the checkpoint loaded at its start records as completed or processed is
\* sent to the LLM, no user is sent to it twice, and neither the annotations
\* in memory nor those of the checkpoint file hold two entries of one user.
ResumeNeverRepeats ==
    /\ prog \in Annotators => OneEntryEach(all_metrics.annotations)
    /\ InRun =>
          /\ \A i \in 1..Len(user_msgs) :
                user_msgs[i].user_id \notin outputs[1].loaded
          /\ \A i, j \in 1..Len(user_msgs) :
                user_msgs[i].user_id = user_msgs[j].user_id => i = j
          /\ OneEntryEach(records)

\* A run that loaded a checkpoint with completed users has sent one of the
\* other users to the LLM.
ResumeWitness ==
    /\ InRun
    /\ outputs[1].loaded # {}
    /\ user_msgs # <<>>

\* The users of the input.
AllUsers == 1..Len(conversations)

\* C28: checkpoint completeness. When a run of llm_annotator_aligned.main has
\* finished, the checkpoint file lists every user as completed, with an
\* annotation of each, so that the next run has no user left to annotate.
CheckpointComplete ==
    (prog = "llm_annotator_aligned" /\ pc = "finished") =>
        /\ all_metrics.exists
        /\ AllUsers \subseteq all_metrics.completed_users
        /\ AllUsers \subseteq Keys(all_metrics.annotations)
        /\ users_to_annotate([u \in AllUsers |-> u],
                             all_metrics.completed_users) = <<>>

\* A run of llm_annotator_aligned.main over eleven users has finished with
\* all of them annotated in OUTPUT_JSON, and the checkpoint file holds the
\* first ten.
CheckpointMissesLast ==
    /\ prog = "llm_annotator_aligned"
    /\ pc = "finished"
    /\ Len(conversations) = 11
    /\ Keys(result) = AllUsers
    /\ all_metrics.exists
    /\ all_metrics.completed_users = 1..10

-----------------------------------------------------------------------------
(* Properties of rule_based_classify *)

\* C29: rule_based_classify agrees with classify_pattern of the conversion.
\* Once both have been called on a score vector, rule_based_classify has
\* returned the index of the letter classify_pattern has returned.
RuleBasedAgrees ==
    (prog = "validate" /\ pc = "compared") =>
        outputs[1].value = PATTERN_MAPPING[outputs[2].value.pattern]

\* Both have been called on a vector of total at most 15 with an E average
\* under 1.5 and a P average of at least 2: rule_based_classify has returned
\* 5 (F), classify_pattern C.
RuleBasedFWitness ==
    /\ prog = "validate"
    /\ pc = "compared"
    /\ outputs[1].arg = <<2, 2, 2, 2, 0, 0, 0, 0, 0, 0, 0, 0>>
    /\ outputs[1].value = 5
    /\ outputs[2].value = [pattern |-> "C", confidence |-> 50]

=============================================================================
